---- MODULE Spec2Model ----
(***************************************************************************)
(* Model of BedrockConnectHelper                                           *)
(* (src/src/bedrock_connect_helper/bedrock_connect_helper.py):             *)
(*   - region selection        get_validate_regions_from_conf              *)
(*   - the retry session       bedrock_converse_with_retry                 *)
(*   - the shared endpoint file: load_conf_file (reader) and               *)
(*     write_json_to_file_with_lock (writer), step by step                 *)
(***************************************************************************)
EXTENDS Integers, Sequences, FiniteSets, TLC

VARIABLES
    \* class-level configuration (lines 28-33); attributes, so they can be set
    MAX_RETRY_TIME,
    MAX_RETRY_TIMES_FOR_EACH_REGION,
    PRIMARY_REGION_RANDOM_DISTRIBUTION,
    ENABLE_CROSS_REGION_INFERENCE,
    MULTI_REGION_RETRY,   \* line 30; no statement of the class reads it
    \* helper instance state (lines 68-108)
    current_time,
    raw_region_configs,
    validate_regions,
    failed_regions,
    error_logs,
    response,
    \* position and locals of the running bedrock_converse_with_retry
    pc,
    region_index,
    one_region_retry_time,
    retry_time,
    model_id,
    output,           \* the value the call returned: "False" or the response
    \* history kept for the properties
    session,          \* number of calls of bedrock_converse_with_retry begun
    calls,            \* the transport's log of the running call: one entry per
                      \* invocation (line 407)
    blamed,           \* regions that ever answered empty or with a transport error
    failed_at_entry,  \* Len(failed_regions) when the running call began
    messages,         \* the `messages` argument of the running call:
                      \* "empty" or "given" ("none" before the first call)
    extract_content,  \* the `extract_content` argument of the running call
    selected,         \* last value returned by get_validate_regions_from_conf
    select_arg,       \* the record list that call filtered
    \* the endpoint file and the processes that share it
    file,             \* content of the file, a sequence of characters
    old_content,      \* content of the file before any writer began
    lock,             \* the writer holding the flock, or NoWriter
    wpc,              \* each writer's position in write_json_to_file_with_lock
    wdata,            \* each writer's argument `data`
    wbuf,             \* each writer's bytes still in the file object's buffer
    woff,             \* each writer's file offset
    rpc,              \* the reader's position in load_conf_file
    rdata,            \* the bytes the reader's f.read() has read so far
    rsize,            \* the size of the buffer f.read() reads into
    \* history of load_conf_file, disable_region_in_conf and
    \* write_json_to_file_with_lock calls made on the helper
    ops,              \* number of such calls made
    last_op,          \* the last such call: what it was given and returned
    prev_op,          \* the call before it
    \* the helpers of the process: the variables above, the class attributes
    \* and the file apart, belong to the helper whose method runs
    active,           \* which helper that is: 1, 2, ...
    parked,           \* the other helper's instance, or NoHelper
    \* what the setters and the wrapper methods leave on the helper
    api_method,       \* self.api_method; the class attribute (line 39) until
                      \* set_api_method assigns it
    trace,            \* self.trace: "unset" (no such attribute) until
                      \* invoke_model or invoke_model_with_response_stream
                      \* assigns it, with guardrailIdentifier and
                      \* guardrailVersion
    self_ENABLE_CROSS_REGION_INFERENCE,
                      \* the instance attribute set_cross_region_inference
                      \* assigns (line 184): "unset", "True" or "False"
    self_model_id     \* self.model_id: the constructor's model_id (lines
                      \* 70-73) until set_model_id or a wrapper method
                      \* given a modelId assigns it

cfgVars == <<MAX_RETRY_TIME, MAX_RETRY_TIMES_FOR_EACH_REGION,
             PRIMARY_REGION_RANDOM_DISTRIBUTION, ENABLE_CROSS_REGION_INFERENCE,
             MULTI_REGION_RETRY>>

helperVars == <<current_time, raw_region_configs, validate_regions,
                failed_regions, error_logs, response>>

sessionVars == <<pc, region_index, one_region_retry_time, retry_time, model_id,
                 output, session, calls, blamed, failed_at_entry, messages,
                 extract_content>>

selectVars == <<selected, select_arg>>

fileVars == <<file, old_content, lock, wpc, wdata, wbuf, woff, rpc, rdata,
             rsize>>

opVars == <<ops, last_op, prev_op>>

processVars == <<active, parked>>

settingVars == <<api_method, trace, self_ENABLE_CROSS_REGION_INFERENCE,
                 self_model_id>>

vars == <<cfgVars, processVars, settingVars, helperVars, sessionVars, selectVars, fileVars, opVars>>

----------------------------------------------------------------------------
(* Bounds of the model *)

MaxRegions == 2          \* records in an endpoint snapshot (retry session)
MaxRetryBound == 3       \* largest MAX_RETRY_TIME tried
MaxPerRegionBound == 2   \* largest MAX_RETRY_TIMES_FOR_EACH_REGION tried
MaxCalls == 2            \* calls of bedrock_converse_with_retry on one helper
MaxTime == 2             \* timestamps are 0..MaxTime
SelMaxRecords == 3       \* records in a snapshot given to region selection
FileMaxRecords == 2      \* records in a payload written to the endpoint file
FileMaxLoad == 3         \* processes at the endpoint file and failed flushes,
                         \* together, in one run

RegionNames == <<"us-east-1", "us-west-2", "eu-west-1", "ap-northeast-1",
                 "eu-central-1">>
Min(a, b) == IF a <= b THEN a ELSE b
RegionsUpTo(n) == {RegionNames[i] : i \in 1..Min(n, Len(RegionNames))}

Times == 0..MaxTime

\* the model id the helper was constructed with (line 71)
BaseModelId == "anthropic.claude-3-haiku"

\* the model ids given to set_model_id and to the wrapper methods: none
\* (the default ''), or the id of another model
ModelIdArgs == {"", "amazon.nova-lite"}

----------------------------------------------------------------------------
(* Sequence helpers *)

Range(s) == {s[i] : i \in DOMAIN s}

RECURSIVE SelectSeqIdx(_, _)
\* the subsequence of s at the indices in I, in order
SelectSeqIdx(s, I) ==
    IF s = <<>> THEN <<>>
    ELSE LET n == Len(s)
             init == SelectSeqIdx(SubSeq(s, 1, n - 1), I)
         IN IF n \in I THEN Append(init, s[n]) ELSE init

\* list.pop(i) with a 1-based index
Pop(s, i) == SubSeq(s, 1, i - 1) \o SubSeq(s, i + 1, Len(s))

Count(s, x) == Cardinality({i \in DOMAIN s : s[i] = x})

----------------------------------------------------------------------------
(* Endpoint records: the JSON objects of the endpoint file.               *)
(* region_profile_prefix is optional: a record may lack the key.          *)

Prefixes == {"", "us"}

RecordsOver(regions, times) ==
    [region : regions, primary : BOOLEAN, next_available_time : times]
    \cup
    [region : regions, primary : BOOLEAN, next_available_time : times,
     region_profile_prefix : Prefixes]

HasPrefixKey(rec) == "region_profile_prefix" \in DOMAIN rec

DistinctRegions(s) ==
    \A i, j \in DOMAIN s : s[i].region = s[j].region => i = j

\* sequences of at most n records with pairwise distinct regions
\* (region is the unique key of an endpoint record)
SnapshotsOver(recs, n) ==
    UNION {{s \in [1..k -> recs] : DistinctRegions(s)} : k \in 0..n}

----------------------------------------------------------------------------
(* The values json.loads can return (line 127).  A list of endpoint       *)
(* records is a sequence of records; an item that is no endpoint record    *)
(* is kept as [odd |-> its JSON value], and a value that is no list as     *)
(* <<[top |-> its JSON value]>>.                                           *)

IsOdd(item) == "odd" \in DOMAIN item

Digits == <<"0", "1", "2", "3", "4", "5", "6", "7", "8", "9">>
DigitVal(c) == (CHOOSE i \in 1..10 : Digits[i] = c) - 1

RECURSIVE NatOf(_, _, _, _)
NatOf(s, i, j, acc) ==
    IF i >= j THEN acc ELSE NatOf(s, i + 1, j, 10 * acc + DigitVal(s[i]))

\* one half of the decimal fraction d[1].d[2]d[3]..., digit by digit
Halved(d) ==
    [k \in 1..(Len(d) + 1) |->
        ((IF k <= Len(d) THEN d[k] ELSE 0)
            + 10 * (IF k > 1 THEN d[k - 1] % 2 ELSE 0)) \div 2] \o <<>>

RECURSIVE HalvedTimes(_, _)
HalvedTimes(d, n) ==
    IF n = 0 THEN d
    ELSE IF n = 1 THEN Halved(d)
    ELSE LET h == HalvedTimes(d, n \div 2)
         IN IF Len(h) > 0 THEN HalvedTimes(h, n - n \div 2) ELSE h

\* 0.a <= 0.b for two sequences of digits
FractionLeq(a, b) ==
    LET da(k) == IF k <= Len(a) THEN a[k] ELSE 0
        db(k) == IF k <= Len(b) THEN b[k] ELSE 0
        differ == {k \in 1..(Len(a) + Len(b)) : da(k) # db(k)}
    IN \/ differ = {}
       \/ LET k == CHOOSE i \in differ : \A j \in differ : i <= j
          IN da(k) < db(k)

\* float(text) == 0.0 for the text of a JSON number with a fraction or an
\* exponent: its digits are all 0, or it is at most 2**-1075, half the
\* least float above zero, which is rounded to 0.0 (texts of fewer than
\* 100000 characters); NaN and Infinity are not zero
FloatIsZero(text) ==
    LET marks == {i \in DOMAIN text : text[i] \in {"e", "E"}}
        mark == IF marks = {} THEN Len(text) + 1
                ELSE CHOOSE i \in marks : TRUE
        points == {i \in 1..(mark - 1) : text[i] = "."}
        point == IF points = {} THEN mark ELSE CHOOSE i \in points : TRUE
        isdigit(c) == c \in Range(Digits)
        whole == SelectSeq(SubSeq(text, 1, point - 1), isdigit)
        mantissa == whole \o SelectSeq(SubSeq(text, point, mark - 1), isdigit)
        nonzero == {k \in DOMAIN mantissa : mantissa[k] # "0"}
        lead == CHOOSE k \in nonzero : \A j \in nonzero : k <= j
        expdigits == SelectSeq(SubSeq(text, mark + 1, Len(text)), isdigit)
        expnonzero == {k \in DOMAIN expdigits : expdigits[k] # "0"}
        expfrom == IF expnonzero = {} THEN Len(expdigits) + 1
                   ELSE CHOOSE k \in expnonzero : \A j \in expnonzero : k <= j
        negative == mark < Len(text) /\ text[mark + 1] = "-"
        exponent == LET n == NatOf(expdigits, expfrom, Len(expdigits) + 1, 0)
                    IN IF negative THEN 0 - n ELSE n
        \* the place of the leading digit: the value is in
        \* [10^place, 10^(place + 1))
        place == Len(whole) - lead + exponent
        significant == [k \in 1..(Len(mantissa) - lead + 1) |->
                           DigitVal(mantissa[lead + k - 1])]
    IN IF \E i \in DOMAIN text : text[i] \in {"N", "I"} THEN FALSE
       ELSE IF nonzero = {} THEN TRUE
       ELSE IF Len(expdigits) + 1 - expfrom > 6 THEN negative
       ELSE IF place # 0 - 324 THEN place < 0 - 324
       ELSE FractionLeq(significant,
                        SubSeq(HalvedTimes(<<1>>, 1075), 325, 1076))

IsTop(data) == Len(data) = 1 /\ "top" \in DOMAIN data[1]

\* `if not data` (lines 152 and 629): an empty list, or a value that is no
\* list and is empty, zero, null or false
Falsy(data) ==
    IF IsTop(data)
    THEN LET j == data[1].top
         IN \/ j.kind = "obj" /\ j.members = <<>>
            \/ j.kind = "str" /\ j.chars = <<>>
            \/ j.kind = "int" /\ j.n = 0
            \/ j.kind = "float" /\ FloatIsZero(j.text)
            \/ j.kind = "lit" /\ j.name \in {"null", "false"}
    ELSE data = <<>>

\* `for x in configs: x[key]`: the records gone through before an item that
\* is no record, where the subscript raises TypeError (the keys of a dict and
\* the characters of a string are strings; a number, null, true and false
\* cannot be gone through at all)
FirstOdd(configs) ==
    IF \E i \in DOMAIN configs : IsOdd(configs[i])
    THEN CHOOSE i \in DOMAIN configs :
            /\ IsOdd(configs[i])
            /\ \A k \in DOMAIN configs : IsOdd(configs[k]) => i <= k
    ELSE Len(configs) + 1

Records(configs) ==
    IF IsTop(configs) THEN <<>>
    ELSE SubSeq(configs, 1, FirstOdd(configs) - 1)

RaisesTypeError(configs) ==
    IF IsTop(configs)
    THEN LET j == configs[1].top
         IN ~(\/ j.kind = "obj" /\ j.members = <<>>
              \/ j.kind = "str" /\ j.chars = <<>>)
    ELSE FirstOdd(configs) <= Len(configs)

\* the items of the model's snapshots that are no endpoint records are no
\* objects at all
Modelled(configs) ==
    \/ IsTop(configs)
    \/ \A i \in DOMAIN configs :
          IsOdd(configs[i]) => configs[i].odd.kind # "obj"

----------------------------------------------------------------------------
(* get_validate_regions_from_conf (lines 136-180)                         *)
(* first_region_index is the value random.randrange returns (0-based).    *)

EligibleIdxPrimaryAlways(region_configs, now) ==
    {i \in DOMAIN region_configs :
        \/ region_configs[i].primary
        \/ region_configs[i].next_available_time <= now}

\* lines 155-162: the two lists built by the filtering loop
EligibleIdx(region_configs, now) ==
    {i \in DOMAIN region_configs : region_configs[i].next_available_time <= now}

PrimaryIdx(region_configs, now, prd) ==
    {i \in EligibleIdx(region_configs, now) : prd /\ region_configs[i].primary}

RegionOf(rec) == rec.region

RegionsAt(region_configs, I) ==
    LET picked == SelectSeqIdx(region_configs, I)
    IN [k \in DOMAIN picked |-> RegionOf(picked[k])]

PrimaryRegions(region_configs, now, prd) ==
    RegionsAt(region_configs, PrimaryIdx(region_configs, now, prd))

OtherRegions(region_configs, now, prd) ==
    RegionsAt(region_configs,
              EligibleIdx(region_configs, now) \ PrimaryIdx(region_configs, now, prd))

MoveToFrontBySwap(primary_regions, first_region_index) ==
    [k \in DOMAIN primary_regions |->
        IF k = 1 THEN primary_regions[first_region_index + 1]
        ELSE IF k = first_region_index + 1 THEN primary_regions[1]
        ELSE primary_regions[k]]

\* lines 168-173: pop the chosen primary and insert it at the front
MoveToFront(primary_regions, first_region_index) ==
    <<primary_regions[first_region_index + 1]>>
        \o Pop(primary_regions, first_region_index + 1)

\* the indices random.randrange(primary_region_num) can return
RandRange(n) == 0..(n - 1)

GetValidateRegions(region_configs, now, prd, first_region_index) ==
    LET primary_regions == PrimaryRegions(region_configs, now, prd)
        others == OtherRegions(region_configs, now, prd)
    IN IF prd /\ primary_regions # <<>>
       THEN (IF Len(primary_regions) > 1
             THEN MoveToFront(primary_regions, first_region_index)
             ELSE primary_regions) \o others
       ELSE others

\* the values first_region_index can take for this snapshot
FirstIndexChoices(region_configs, now, prd) ==
    LET n == Len(PrimaryRegions(region_configs, now, prd))
    IN IF prd /\ n > 1 THEN RandRange(n) ELSE {0}

\* no method of the helper is running: no retry session, and no call of
\* write_json_to_file_with_lock in the helper's process
NoCallRunning ==
    /\ pc \in {"idle", "done", "raised"}
    /\ \A w \in DOMAIN wpc : wpc[w] = "idle"

\* lines 152-153: `if not region_configs` means the helper's own snapshot
EffectiveConfigs(region_configs) ==
    IF Falsy(region_configs) THEN raw_region_configs ELSE region_configs

\* line 108 of __init__: the selection made at construction, assigned to
\* validate_regions whatever it is
ConstructSelect ==
    /\ pc = "constructing"
    /\ Modelled(raw_region_configs)
    /\ IF RaisesTypeError(raw_region_configs)
       THEN \* the loop of lines 155-162 raises: __init__ does not return
            /\ pc' = "unconstructed"
            /\ UNCHANGED <<selectVars, validate_regions>>
       ELSE /\ select_arg' = Records(raw_region_configs)
            /\ \E k \in FirstIndexChoices(select_arg', current_time,
                                          PRIMARY_REGION_RANDOM_DISTRIBUTION) :
                  selected' = GetValidateRegions(select_arg', current_time,
                                                 PRIMARY_REGION_RANDOM_DISTRIBUTION, k)
            /\ validate_regions' = selected'
            /\ pc' = "idle"
    /\ UNCHANGED <<cfgVars, processVars, settingVars, current_time, raw_region_configs, failed_regions,
                   error_logs, response, region_index, one_region_retry_time,
                   retry_time, model_id, output, session, calls, blamed,
                   failed_at_entry, messages, extract_content, fileVars,
                   opVars>>

\* a later call get_validate_regions_from_conf(region_configs) on the helper;
\* lines 177-178 replace validate_regions only by a non-empty result
SelectAgain(region_configs) ==
    /\ NoCallRunning
    /\ Modelled(EffectiveConfigs(region_configs))
    /\ IF RaisesTypeError(EffectiveConfigs(region_configs))
       THEN \* the loop of lines 155-162 raises before anything is assigned
            UNCHANGED <<selectVars, validate_regions>>
       ELSE /\ select_arg' = Records(EffectiveConfigs(region_configs))
            /\ \E k \in FirstIndexChoices(select_arg', current_time,
                                          PRIMARY_REGION_RANDOM_DISTRIBUTION) :
                  selected' = GetValidateRegions(select_arg', current_time,
                                                 PRIMARY_REGION_RANDOM_DISTRIBUTION, k)
            /\ validate_regions' =
                  IF selected' # <<>> THEN selected' ELSE validate_regions
    /\ UNCHANGED <<cfgVars, processVars, settingVars, current_time, raw_region_configs, failed_regions,
                   error_logs, response, sessionVars, fileVars, opVars>>

----------------------------------------------------------------------------
(* bedrock_converse_with_retry (lines 326-453)                            *)
(* api_method is one of VALID_BEDROCK_APIS (set_api_method, line 190), so  *)
(* the `else: break` of line 398 and the `return False` of line 410 are    *)
(* not taken.                                                              *)

\* what the transport does with an invocation: it returns a response, returns
\* an empty one, or raises an error of one of the two classes
Outcomes == {"success", "empty", "validation", "transport"}

\* line 35
VALID_BEDROCK_APIS ==
    {"converse", "converse_stream", "invoke_model",
     "invoke_model_with_response_stream"}

ConverseApis == {"converse", "converse_stream"}

\* responses the transport returns, by what extract_response finds in them:
\* "text": output.message.content[0].text; "no_text": a content list that is
\* empty or whose first block has no text; "no_output": no output.message;
\* "stream": a stream key; "body": a body with content[0].text
Responses == {"text", "no_text", "no_output", "stream", "body"}

\* lines 246-264 of constract_api_kwargs, which line 401 calls inside the try:
\* for the invoke methods getattr(self, 'trace') raises AttributeError unless
\* a wrapper method assigned the attribute
KwargsRaise(method, trace_attribute) ==
    method \notin ConverseApis /\ trace_attribute = "unset"

\* extract_response('content') (lines 266-306) on self.response: the value it
\* returns, or "raises" (IndexError, KeyError, AttributeError)
ExtractResponse(method, shape) ==
    IF method = "converse"
    THEN (IF shape = "text" THEN "content"
          ELSE IF shape = "no_text" THEN "raises"
          ELSE "None")
    ELSE IF method = "converse_stream"
    THEN (IF shape = "stream" THEN "stream" ELSE "None")
    ELSE IF method = "invoke_model"
    THEN (IF shape = "body" THEN "content" ELSE "raises")
    ELSE (IF shape = "body" THEN "body" ELSE "None")

\* line 367: self.ENABLE_CROSS_REGION_INFERENCE is the instance attribute once
\* set_cross_region_inference has assigned it, the class attribute before
CrossRegionInference ==
    IF self_ENABLE_CROSS_REGION_INFERENCE = "unset"
    THEN ENABLE_CROSS_REGION_INFERENCE
    ELSE self_ENABLE_CROSS_REGION_INFERENCE = "True"

\* lines 367-373: the inference profile id used for region_name.
\* next(...) over raw_region_configs reads rec['region_profile_prefix'] of the
\* first record of that region: a record without the key raises KeyError,
\* and an item that is no record, met before a record of that region, raises
\* TypeError at rec['region'].
MatchingIdx(region_name) ==
    {i \in DOMAIN Records(raw_region_configs) :
        raw_region_configs[i].region = region_name}

FirstMatch(region_name) ==
    raw_region_configs[CHOOSE i \in MatchingIdx(region_name) :
                           \A j \in MatchingIdx(region_name) : i <= j]

\* line 371: region_profile_prefix + '.' + self.model_id
ProfileId(prefix, m) == prefix \o "." \o m

\* lines 421-426 and 438-447 append the region; lines 427-437 do not
MarksRegionFailed(outcome) == outcome \in {"empty", "transport"}

RecordsEveryFailure(sub) == TRUE

\* line 422 and line 443: recorded only on the first sub-attempt of a region
RecordsFailure(sub) == sub = 0

\* line 423 and line 444: self.failed_regions.append(region_name)
RecordFailure(regions, region_name) == Append(regions, region_name)

BudgetLeftOffByOne(used, max) == used <= max

\* line 357 and line 378: the global budget test
BudgetLeft(used, max) == used < max

SubAttemptLeftOffByOne(sub, max) == sub <= max

\* line 375: range(MAX_RETRY_TIMES_FOR_EACH_REGION)
SubAttemptLeft(sub, max) == sub < max

\* line 414: `if response:` on what the transport returned
IsResponse(outcome) == outcome = "success"

\* lines 425, 435 and 446: retry_time += 1 in each of the three failure paths
BudgetCost(outcome) == 1

RegionAtReversed(regions, i) == regions[Len(regions) + 1 - i]

\* line 355: `for region_name in self.validate_regions`, i-th turn
RegionAt(regions, i) == regions[i]

sessionLocals == <<region_index, one_region_retry_time, retry_time, model_id>>

InvalidMessagesNever(messages_empty) == FALSE

\* line 338: `if not messages`
InvalidMessages(messages_empty) == messages_empty

\* line 345: `if not self.validate_regions`
NoEndpoint(regions) == regions = <<>>

\* lines 183-186: set_cross_region_inference(enable_cross_region) assigns
\* the attribute on the instance
SetCrossRegionInference(enable_cross_region) ==
    /\ NoCallRunning
    /\ self_ENABLE_CROSS_REGION_INFERENCE' =
          IF enable_cross_region THEN "True" ELSE "False"
    /\ UNCHANGED <<cfgVars, processVars, api_method, trace, self_model_id,
                   helperVars, sessionVars, selectVars, fileVars, opVars>>

\* lines 188-196: set_api_method(method) with one of VALID_BEDROCK_APIS; any
\* other argument changes nothing
SetApiMethod(method) ==
    /\ NoCallRunning
    /\ api_method' = IF method \in VALID_BEDROCK_APIS THEN method ELSE api_method
    /\ UNCHANGED <<cfgVars, processVars, trace,
                   self_ENABLE_CROSS_REGION_INFERENCE, self_model_id,
                   helperVars, sessionVars, selectVars, fileVars, opVars>>

\* lines 201-202, and 474-475, 503-504, 527-528, 566-567 of the wrapper
\* methods: `if model_id:` keeps the attribute when the argument is ''
ModelIdAfter(model_id_arg, attribute) ==
    IF model_id_arg # "" THEN model_id_arg ELSE attribute

\* lines 198-202: set_model_id(model_id)
SetModelId(model_id_arg) ==
    /\ NoCallRunning
    /\ self_model_id' = ModelIdAfter(model_id_arg, self_model_id)
    /\ UNCHANGED <<cfgVars, processVars, api_method, trace,
                   self_ENABLE_CROSS_REGION_INFERENCE, helperVars, sessionVars,
                   selectVars, fileVars, opVars>>

\* lines 336-353: entry checks and initialisation; line 353 reads
\* self.model_id as the method that called left it
Enter(messages_empty, extract) ==
    /\ NoCallRunning
    /\ session < MaxCalls
    /\ session' = session + 1
    /\ failed_at_entry' = Len(failed_regions)
    /\ calls' = <<>>
    /\ messages' = IF messages_empty THEN "empty" ELSE "given"
    /\ extract_content' = extract
    /\ IF InvalidMessages(messages_empty)
       THEN /\ error_logs' = Append(error_logs, "messages_invalid")
            /\ output' = "False"
            /\ pc' = "done"
            /\ UNCHANGED sessionLocals
       ELSE IF NoEndpoint(validate_regions)
       THEN /\ error_logs' = Append(error_logs, "no_endpoint")
            /\ output' = "False"
            /\ pc' = "done"
            /\ UNCHANGED sessionLocals
       ELSE /\ retry_time' = 0
            /\ model_id' = self_model_id'
            /\ region_index' = 1
            /\ one_region_retry_time' = 0
            /\ output' = "False"
            /\ pc' = "outer"
            /\ UNCHANGED error_logs
    /\ UNCHANGED <<cfgVars, processVars, self_ENABLE_CROSS_REGION_INFERENCE,
                   current_time, raw_region_configs, validate_regions,
                   failed_regions, response, blamed, selectVars, fileVars,
                   opVars>>

\* bedrock_converse_with_retry(messages, system, extract_content) called on
\* the helper as it is
Call(messages_empty, extract) ==
    /\ UNCHANGED <<api_method, trace, self_model_id>>
    /\ Enter(messages_empty, extract)

\* converse, converse_stream, invoke_model and
\* invoke_model_with_response_stream (lines 456-591), given something to
\* send or not, a modelId and, the invoke methods, a trace keyword.
\* Each returns None without a call when it is given nothing to send:
\* converse tests that before it sets the api method (lines 469-472), the
\* others after (lines 498-501, 522-525, 561-564), and all before they look
\* at modelId.  The invoke methods then assign self.trace: 'DISABLED', or,
\* given trace='ENABLED', the name `trace`, which is not defined (lines 537
\* and 576), so that NameError leaves the method before the call.
\* converse and converse_stream take no trace keyword and assign no trace.
Wrapper(method, messages_empty, modelId, trace_kwarg) ==
    /\ method \in VALID_BEDROCK_APIS
    /\ method \in ConverseApis => trace_kwarg = "absent"
    /\ IF messages_empty \/ trace_kwarg = "ENABLED"
       THEN /\ NoCallRunning
            /\ api_method' = IF method = "converse" /\ messages_empty
                             THEN api_method ELSE method
            /\ self_model_id' = IF messages_empty THEN self_model_id
                                ELSE ModelIdAfter(modelId, self_model_id)
            /\ trace' = trace
            /\ output' = IF messages_empty THEN "None" ELSE "NameError"
            /\ UNCHANGED <<cfgVars, processVars,
                           self_ENABLE_CROSS_REGION_INFERENCE, helperVars, pc,
                           region_index, one_region_retry_time, retry_time,
                           model_id, session, calls, blamed, failed_at_entry,
                           messages, extract_content, selectVars, fileVars,
                           opVars>>
       ELSE /\ api_method' = method
            /\ self_model_id' = ModelIdAfter(modelId, self_model_id)
            /\ trace' = IF method \in ConverseApis THEN trace ELSE "DISABLED"
            /\ Enter(FALSE, FALSE)

\* lines 355-373 and 450-453: one turn of the loop over validate_regions
NextRegion ==
    /\ pc = "outer"
    /\ CrossRegionInference => Modelled(raw_region_configs)
    /\ IF /\ region_index <= Len(validate_regions)
          /\ BudgetLeft(retry_time, MAX_RETRY_TIME)
       THEN LET region_name == RegionAt(validate_regions, region_index)
            IN IF \/ ~CrossRegionInference
                  \/ /\ MatchingIdx(region_name) = {}
                     /\ ~RaisesTypeError(raw_region_configs)
               THEN /\ pc' = "inner"
                    /\ UNCHANGED <<model_id, output>>
               ELSE IF \/ MatchingIdx(region_name) = {}
                       \/ ~HasPrefixKey(FirstMatch(region_name))
               THEN \* TypeError or KeyError propagates to the caller
                    /\ pc' = "raised"
                    /\ UNCHANGED <<model_id, output>>
               ELSE /\ pc' = "inner"
                    /\ model_id' =
                         IF FirstMatch(region_name).region_profile_prefix # ""
                         THEN ProfileId(FirstMatch(region_name).region_profile_prefix,
                                        self_model_id)
                         ELSE model_id
                    /\ UNCHANGED output
       ELSE \* list exhausted, or the else: break of line 450; return False
            /\ pc' = "done"
            /\ output' = "False"
            /\ UNCHANGED model_id
    /\ one_region_retry_time' = 0
    /\ UNCHANGED <<cfgVars, processVars, settingVars, helperVars, region_index, retry_time, session, calls,
                   blamed, failed_at_entry, messages, extract_content,
                   selectVars, fileVars, opVars>>

\* how the sub-attempt ends when it does not return: the class of the handler
\* that takes it.  An exception raised by line 401 or by extract_response is
\* none of the two validation classes, so line 438 catches it.
FailureClass(built, outcome) ==
    IF ~built \/ IsResponse(outcome) THEN "transport" ELSE outcome

\* lines 375-447: one sub-attempt; when the arguments are built the
\* transport is invoked and answers with `outcome`, a response having `shape`
Invoke(outcome, shape) ==
    /\ pc = "inner"
    /\ SubAttemptLeft(one_region_retry_time, MAX_RETRY_TIMES_FOR_EACH_REGION)
    /\ BudgetLeft(retry_time, MAX_RETRY_TIME)
    /\ LET region_name == RegionAt(validate_regions, region_index)
           built == ~KwargsRaise(api_method, trace)
           got == built /\ IsResponse(outcome)
           returned == IF extract_content
                       THEN ExtractResponse(api_method, shape)
                       ELSE "response"
           failure == FailureClass(built, outcome)
       IN /\ calls' = IF built
                      THEN Append(calls, [region |-> region_name,
                                          sub |-> one_region_retry_time,
                                          modelId |-> model_id,
                                          outcome |-> outcome])
                      ELSE calls
          /\ blamed' = IF built /\ outcome \in {"empty", "transport"}
                       THEN blamed \cup {region_name} ELSE blamed
          /\ response' = IF got THEN "response" ELSE response
          /\ IF got /\ returned # "raises"
             THEN /\ output' = returned
                  /\ pc' = "done"
                  /\ UNCHANGED <<failed_regions, error_logs, retry_time,
                                 one_region_retry_time>>
             ELSE /\ failed_regions' =
                       IF MarksRegionFailed(failure)
                          /\ RecordsFailure(one_region_retry_time)
                       THEN RecordFailure(failed_regions, region_name)
                       ELSE failed_regions
                  /\ error_logs' =
                       IF failure = "empty" THEN error_logs
                       ELSE Append(error_logs, failure)
                  /\ retry_time' = retry_time + BudgetCost(failure)
                  /\ one_region_retry_time' = one_region_retry_time + 1
                  /\ UNCHANGED <<output, pc>>
    /\ UNCHANGED <<cfgVars, processVars, settingVars, current_time, raw_region_configs, validate_regions,
                   region_index, model_id, session, failed_at_entry, messages,
                   extract_content, selectVars, fileVars, opVars>>

\* line 375 exhausted, or the else: break of line 448: on to the next region
LeaveRegion ==
    /\ pc = "inner"
    /\ ~(/\ SubAttemptLeft(one_region_retry_time, MAX_RETRY_TIMES_FOR_EACH_REGION)
         /\ BudgetLeft(retry_time, MAX_RETRY_TIME))
    /\ region_index' = region_index + 1
    /\ pc' = "outer"
    /\ UNCHANGED <<cfgVars, processVars, settingVars, helperVars, one_region_retry_time, retry_time,
                   model_id, output, session, calls, blamed, failed_at_entry,
                   messages, extract_content, selectVars, fileVars, opVars>>

----------------------------------------------------------------------------
(* The endpoint file.                                                     *)
(* Its content is a sequence of characters, each a one-character string,   *)
(* over the printable ASCII characters without the backslash, the          *)
(* whitespace characters and NUL.  json.dumps (line 634) and json.loads    *)
(* (line 127) are those of the Python standard library: a text is parsed   *)
(* into the tree of its JSON value, and a value is written as the text of  *)
(* its tree with ", " between items and ": " after a key.                  *)

\* what json.loads skips between tokens
Whitespace == {" ", "\n", "\r", "\t"}

\* what a hole left by a write beyond the end of the file reads as
NUL == "NUL"

\* characters a JSON string must not hold unescaped
ControlChars == {NUL, "\n", "\r", "\t"}

\* the strings of the model, character by character
Spelling ==
       ("region" :> <<"r", "e", "g", "i", "o", "n">>)
    @@ ("primary" :> <<"p", "r", "i", "m", "a", "r", "y">>)
    @@ ("next_available_time" :>
           <<"n", "e", "x", "t", "_", "a", "v", "a", "i", "l", "a", "b", "l",
           "e", "_", "t", "i", "m", "e">>)
    @@ ("region_profile_prefix" :>
           <<"r", "e", "g", "i", "o", "n", "_", "p", "r", "o", "f", "i", "l",
           "e", "_", "p", "r", "e", "f", "i", "x">>)
    @@ ("us-east-1" :> <<"u", "s", "-", "e", "a", "s", "t", "-", "1">>)
    @@ ("us-west-2" :> <<"u", "s", "-", "w", "e", "s", "t", "-", "2">>)
    @@ ("eu-west-1" :> <<"e", "u", "-", "w", "e", "s", "t", "-", "1">>)
    @@ ("ap-northeast-1" :>
           <<"a", "p", "-", "n", "o", "r", "t", "h", "e", "a", "s", "t", "-",
           "1">>)
    @@ ("eu-central-1" :>
           <<"e", "u", "-", "c", "e", "n", "t", "r", "a", "l", "-", "1">>)
    @@ ("us" :> <<"u", "s">>)
    @@ ("" :> <<>>)
    @@ ("true" :> <<"t", "r", "u", "e">>)
    @@ ("false" :> <<"f", "a", "l", "s", "e">>)
    @@ ("null" :> <<"n", "u", "l", "l">>)

Strings == DOMAIN Spelling

Spell(s) == Spelling[s]

Known(chars) == \E s \in Strings : Spelling[s] = chars

Text(chars) == CHOOSE s \in Strings : Spelling[s] = chars

\* the tree of a JSON value
JStr(chars) == [kind |-> "str", chars |-> chars]
JInt(n) == [kind |-> "int", n |-> n]
JFloat(text) == [kind |-> "float", text |-> text]
JLit(name) == [kind |-> "lit", name |-> name]
JArr(items) == [kind |-> "arr", items |-> items]
JObj(members) == [kind |-> "obj", members |-> members]

\* the fields of an endpoint record, in the order the files list them
KeyOrder == <<"region", "primary", "next_available_time",
              "region_profile_prefix">>

RequiredKeys == {"region", "primary", "next_available_time"}

\* json.dumps of a field: bool -> true/false, int -> number, str -> string
EncodeValue(key, v) ==
    IF key = "primary" THEN JLit(IF v THEN "true" ELSE "false")
    ELSE IF key = "next_available_time" THEN JInt(v)
    ELSE JStr(Spell(v))

\* json.loads of a field of an endpoint record
DecodeValue(j) ==
    IF j.kind = "lit" THEN j.name = "true"
    ELSE IF j.kind = "int" THEN j.n
    ELSE Text(j.chars)

EncodeMembers(rec, keys) ==
    [i \in 1..Len(keys) |->
        [key |-> Spell(keys[i]), value |-> EncodeValue(keys[i], rec[keys[i]])]]

EncodeObjectRequiredOnly(rec) ==
    JObj(EncodeMembers(rec, SubSeq(KeyOrder, 1, 3)))

\* json.dumps of a record: one member per key the record has
EncodeObject(rec) ==
    JObj(EncodeMembers(rec, SelectSeq(KeyOrder, LAMBDA k : k \in DOMAIN rec)))

\* json.loads of an object that is an endpoint record: a dict with the
\* members' keys
DecodeObject(members) ==
    [k \in {Text(members[i].key) : i \in DOMAIN members} |->
        DecodeValue(members[CHOOSE i \in DOMAIN members :
                                Text(members[i].key) = k].value)]

\* the value a field of an endpoint record holds: region and
\* region_profile_prefix a string, primary a bool, next_available_time an int
RightKind(key, j) ==
    IF key = "primary" THEN j.kind = "lit" /\ j.name \in {"true", "false"}
    ELSE IF key = "next_available_time" THEN j.kind = "int"
    ELSE j.kind = "str" /\ Known(j.chars)

\* an object with the members of an endpoint record, in the order of KeyOrder
IsEndpointObject(j) ==
    /\ j.kind = "obj"
    /\ \A i \in DOMAIN j.members : Known(j.members[i].key)
    /\ LET keys == [i \in DOMAIN j.members |-> Text(j.members[i].key)]
       IN /\ keys = SelectSeq(KeyOrder, LAMBDA k : k \in Range(keys))
          /\ RequiredKeys \subseteq Range(keys)
          /\ \A i \in DOMAIN keys : RightKind(keys[i], j.members[i].value)

\* The value json.loads returns, as the model holds it: a list is the
\* sequence of its items, an endpoint record is a record, any other item is
\* kept as its tree, and a value that is no list is kept as its tree in a
\* sequence of its own.
ItemOf(j) == IF IsEndpointObject(j) THEN DecodeObject(j.members) ELSE [odd |-> j]

Native(j) ==
    IF j.kind = "arr" THEN [i \in DOMAIN j.items |-> ItemOf(j.items[i])]
    ELSE <<[top |-> j]>>

TreeOfItem(item) == IF IsOdd(item) THEN item.odd ELSE EncodeObject(item)

TreeOf(data) ==
    IF IsTop(data) THEN data[1].top
    ELSE JArr([i \in DOMAIN data |-> TreeOfItem(data[i])])

RECURSIVE HasFloat(_)
\* a float is written by float.__repr__, which is not the text it was read
\* from; values holding one are not written in the model
HasFloat(j) ==
    \/ j.kind = "float"
    \/ j.kind = "arr" /\ \E i \in DOMAIN j.items : HasFloat(j.items[i])
    \/ j.kind = "obj" /\ \E i \in DOMAIN j.members : HasFloat(j.members[i].value)

RECURSIVE DumpNat(_)
DumpNat(n) ==
    IF n < 10 THEN <<Digits[n + 1]>>
    ELSE DumpNat(n \div 10) \o <<Digits[(n % 10) + 1]>>

DumpInt(n) == IF n < 0 THEN <<"-">> \o DumpNat(0 - n) ELSE DumpNat(n)

RECURSIVE Serialize(_), SerializeItems(_), SerializeMembers(_)
SerializeItems(items) ==
    IF Len(items) = 1 THEN Serialize(items[1])
    ELSE Serialize(items[1]) \o <<",", " ">> \o SerializeItems(Tail(items))

SerializeMembers(members) ==
    LET first == <<"\"">> \o members[1].key \o <<"\"", ":", " ">>
                    \o Serialize(members[1].value)
    IN IF Len(members) = 1 THEN first
       ELSE first \o <<",", " ">> \o SerializeMembers(Tail(members))

Serialize(j) ==
    IF j.kind = "str" THEN <<"\"">> \o j.chars \o <<"\"">>
    ELSE IF j.kind = "int" THEN DumpInt(j.n)
    ELSE IF j.kind = "float" THEN j.text
    ELSE IF j.kind = "lit" THEN Spell(j.name)
    ELSE IF j.kind = "arr"
    THEN (IF j.items = <<>> THEN <<"[", "]">>
          ELSE <<"[">> \o SerializeItems(j.items) \o <<"]">>)
    ELSE (IF j.members = <<>> THEN <<"{", "}">>
          ELSE <<"{">> \o SerializeMembers(j.members) \o <<"}">>)

\* line 634: json.dumps(data)
Dumps(data) == Serialize(TreeOf(data))

ParseError == [ok |-> FALSE]

Parsed(j, i) == [ok |-> TRUE, val |-> j, pos |-> i]

At(s, i) == IF i <= Len(s) THEN s[i] ELSE "EOF"

RECURSIVE SkipWs(_, _)
SkipWs(s, i) ==
    IF i <= Len(s) /\ s[i] \in Whitespace THEN SkipWs(s, i + 1) ELSE i

RECURSIVE DigitsEnd(_, _)
DigitsEnd(s, i) ==
    IF i <= Len(s) /\ s[i] \in Range(Digits) THEN DigitsEnd(s, i + 1) ELSE i

Matches(s, i, word) ==
    /\ i + Len(word) - 1 <= Len(s)
    /\ SubSeq(s, i, i + Len(word) - 1) = word

\* -?(0|[1-9][0-9]*)(\.[0-9]+)?([eE][-+]?[0-9]+)? : an int when it has neither
\* a fraction nor an exponent, a float otherwise
ParseNumber(s, i) ==
    LET neg == At(s, i) = "-"
        a == IF neg THEN i + 1 ELSE i
        b == IF At(s, a) = "0" THEN a + 1 ELSE DigitsEnd(s, a)
        c == IF At(s, b) = "." /\ DigitsEnd(s, b + 1) > b + 1
             THEN DigitsEnd(s, b + 1) ELSE b
        e == IF At(s, c + 1) \in {"-", "+"} THEN c + 2 ELSE c + 1
        d == IF At(s, c) \in {"e", "E"} /\ DigitsEnd(s, e) > e
             THEN DigitsEnd(s, e) ELSE c
    IN IF b = a THEN ParseError
       ELSE IF d = b
       THEN Parsed(JInt(IF neg THEN 0 - NatOf(s, a, b, 0)
                        ELSE NatOf(s, a, b, 0)), b)
       ELSE Parsed(JFloat(SubSeq(s, i, d - 1)), d)

RECURSIVE StringEnd(_, _)
\* the place of the closing quote; 0 when there is none before a control
\* character or the end of the text
StringEnd(s, i) ==
    IF i > Len(s) \/ s[i] \in ControlChars THEN 0
    ELSE IF s[i] = "\"" THEN i
    ELSE StringEnd(s, i + 1)

ParseString(s, i) ==
    LET e == StringEnd(s, i + 1)
    IN IF e = 0 THEN ParseError
       ELSE Parsed(JStr(SubSeq(s, i + 1, e - 1)), e + 1)

\* dict[key] = value: a key met again keeps its place and takes the new value
SetMember(members, key, value) ==
    IF \E k \in DOMAIN members : members[k].key = key
    THEN [k \in DOMAIN members |->
            IF members[k].key = key THEN [key |-> key, value |-> value]
            ELSE members[k]]
    ELSE Append(members, [key |-> key, value |-> value])

Words ==
    <<[word |-> Spell("null"), val |-> JLit("null")],
      [word |-> Spell("true"), val |-> JLit("true")],
      [word |-> Spell("false"), val |-> JLit("false")],
      [word |-> <<"N", "a", "N">>, val |-> JFloat(<<"N", "a", "N">>)],
      [word |-> <<"I", "n", "f", "i", "n", "i", "t", "y">>,
       val |-> JFloat(<<"I", "n", "f", "i", "n", "i", "t", "y">>)],
      [word |-> <<"-", "I", "n", "f", "i", "n", "i", "t", "y">>,
       val |-> JFloat(<<"-", "I", "n", "f", "i", "n", "i", "t", "y">>)]>>

RECURSIVE ParseValue(_, _), ParseItems(_, _, _), ParseMembers(_, _, _)

\* "key": value, then "}" or "," and the next member
ParseMembers(s, i, acc) ==
    IF At(s, i) # "\"" THEN ParseError
    ELSE LET k == ParseString(s, i)
         IN IF ~k.ok THEN ParseError
            ELSE LET c == SkipWs(s, k.pos)
                 IN IF At(s, c) # ":" THEN ParseError
                    ELSE LET v == ParseValue(s, SkipWs(s, c + 1))
                         IN IF ~v.ok THEN ParseError
                            ELSE LET n == SkipWs(s, v.pos)
                                     members == SetMember(acc, k.val.chars,
                                                          v.val)
                                 IN IF At(s, n) = "}"
                                    THEN Parsed(JObj(members), n + 1)
                                    ELSE IF At(s, n) = ","
                                    THEN ParseMembers(s, SkipWs(s, n + 1),
                                                      members)
                                    ELSE ParseError

\* a value, then "]" or "," and the next item
ParseItems(s, i, acc) ==
    LET v == ParseValue(s, i)
    IN IF ~v.ok THEN ParseError
       ELSE LET n == SkipWs(s, v.pos)
            IN IF At(s, n) = "]"
               THEN Parsed(JArr(Append(acc, v.val)), n + 1)
               ELSE IF At(s, n) = ","
               THEN ParseItems(s, SkipWs(s, n + 1), Append(acc, v.val))
               ELSE ParseError

ParseValue(s, i) ==
    LET c == At(s, i)
        words == {w \in DOMAIN Words : Matches(s, i, Words[w].word)}
    IN IF c = "\"" THEN ParseString(s, i)
       ELSE IF c = "{"
       THEN (LET n == SkipWs(s, i + 1)
             IN IF At(s, n) = "}" THEN Parsed(JObj(<<>>), n + 1)
                ELSE ParseMembers(s, n, <<>>))
       ELSE IF c = "["
       THEN (LET n == SkipWs(s, i + 1)
             IN IF At(s, n) = "]" THEN Parsed(JArr(<<>>), n + 1)
                ELSE ParseItems(s, n, <<>>))
       ELSE IF c \in {"n", "t", "f", "N", "I", "-"} /\ words # {}
       THEN (LET w == CHOOSE w \in words : TRUE
             IN Parsed(Words[w].val, i + Len(Words[w].word)))
       ELSE ParseNumber(s, i)

\* line 127: json.loads(endpoint_config): one JSON value with nothing but
\* whitespace around it; JSONDecodeError on any other text
Loads(text) ==
    LET p == ParseValue(text, SkipWs(text, 1))
    IN IF p.ok /\ SkipWs(text, p.pos) = Len(text) + 1
       THEN [ok |-> TRUE, value |-> Native(p.val)]
       ELSE ParseError

\* what the endpoint file holds after the helper was constructed from the
\* list s: the same text, or what somebody put there since, the first record
\* without the brackets of a list, or the list with a number behind its
\* records
LaterContents(s) ==
    {Dumps(s),
     Serialize(EncodeObject(s[1])),
     Serialize(JArr(Append(TreeOf(s).items, JInt(1))))}

Max(a, b) == IF a >= b THEN a ELSE b

\* write(2) of `data` at offset `off` of a file opened without O_APPEND; a
\* write of no bytes leaves the file as it is, whatever the offset
WriteAt(content, off, data) ==
    IF data = <<>> THEN content
    ELSE [k \in 1..Max(Len(content), off + Len(data)) |->
             IF k > off /\ k <= off + Len(data) THEN data[k - off]
             ELSE IF k <= Len(content) THEN content[k]
             ELSE NUL]

\* open(path, 'r+') leaves what the file holds
NotTruncated(content) == content

\* open(path, 'w') truncates the file (O_TRUNC)
Truncated(content) == <<>>

Writers == {1, 2}
NoWriter == 0

writerRest == <<cfgVars, processVars, settingVars, helperVars, sessionVars, selectVars, old_content,
                wdata, rpc, rdata, rsize, opVars>>

\* lines 629-637: refuse empty data; otherwise open the file for writing.
\* json_data is at most a few hundred bytes, below the buffer size of the
\* file object, so write() buffers it and flush() hands it to the system.
WOpen(w) ==
    /\ wpc[w] = "start"
    /\ IF Falsy(wdata[w])
       THEN /\ wpc' = [wpc EXCEPT ![w] = "returned_false"]
            /\ UNCHANGED <<file, woff>>
       ELSE /\ wpc' = [wpc EXCEPT ![w] = "opened"]
            /\ file' = Truncated(file)
            /\ woff' = [woff EXCEPT ![w] = 0]
    /\ UNCHANGED <<writerRest, lock, wbuf>>

\* line 638: fcntl.flock(f, fcntl.LOCK_EX), which returns once no other
\* open file holds the lock
WLock(w) ==
    /\ wpc[w] = "opened"
    /\ lock = NoWriter
    /\ lock' = w
    /\ wpc' = [wpc EXCEPT ![w] = "locked"]
    /\ UNCHANGED <<writerRest, file, wbuf, woff>>

\* line 639: f.write(json_data)
WWrite(w) ==
    /\ wpc[w] = "locked"
    /\ wbuf' = [wbuf EXCEPT ![w] = Dumps(wdata[w])]
    /\ wpc' = [wpc EXCEPT ![w] = "written"]
    /\ UNCHANGED <<writerRest, file, lock, woff>>

\* line 640: f.flush()
WFlush(w) ==
    /\ wpc[w] = "written"
    /\ file' = WriteAt(file, woff[w], wbuf[w])
    /\ woff' = [woff EXCEPT ![w] = woff[w] + Len(wbuf[w])]
    /\ wbuf' = [wbuf EXCEPT ![w] = <<>>]
    /\ wpc' = [wpc EXCEPT ![w] = "flushed"]
    /\ UNCHANGED <<writerRest, lock>>

\* line 641: fcntl.flock(f, fcntl.LOCK_UN)
WUnlock(w) ==
    /\ wpc[w] = "flushed"
    /\ lock' = NoWriter
    /\ wpc' = [wpc EXCEPT ![w] = "unlocked"]
    /\ UNCHANGED <<writerRest, file, wbuf, woff>>

\* lines 637 and 643: the with block closes the file; return True
WClose(w) ==
    /\ wpc[w] = "unlocked"
    /\ wpc' = [wpc EXCEPT ![w] = "returned_true"]
    /\ UNCHANGED <<writerRest, file, lock, wbuf, woff>>

\* line 637 raising IOError (no permission, no such directory): the file is
\* not opened, so not truncated; line 647 returns False
WOpenFails(w) ==
    /\ wpc[w] = "start"
    /\ ~Falsy(wdata[w])
    /\ wpc' = [wpc EXCEPT ![w] = "returned_false"]
    /\ UNCHANGED <<writerRest, file, lock, wbuf, woff>>

\* line 638 raising IOError (flock answering ENOLCK or EINTR): the with block
\* closes the file that line 637 already truncated; line 647 returns False
WLockFails(w) ==
    /\ wpc[w] = "opened"
    /\ wpc' = [wpc EXCEPT ![w] = "returned_false"]
    /\ UNCHANGED <<writerRest, file, lock, wbuf, woff>>

\* how many bytes of the buffer the system has taken when a flush fails: any
\* number but all of them
FlushCuts(buffer) == 0..(Len(buffer) - 1)

\* line 640 raising IOError (no space left, I/O error) after the system took
\* the first n bytes of the buffer: the file object keeps the rest, and the
\* lock is still held while the exception leaves the with block
WFlushFails(w, n) ==
    /\ wpc[w] = "written"
    /\ n \in FlushCuts(wbuf[w])
    /\ file' = WriteAt(file, woff[w], SubSeq(wbuf[w], 1, n))
    /\ woff' = [woff EXCEPT ![w] = woff[w] + n]
    /\ wbuf' = [wbuf EXCEPT ![w] = SubSeq(wbuf[w], n + 1, Len(wbuf[w]))]
    /\ wpc' = [wpc EXCEPT ![w] = "raised"]
    /\ UNCHANGED <<writerRest, lock>>

\* how many of the bytes a failed flush left close() writes: all of them,
\* or fewer when the system refuses again
CloseTakes(buffer) == 0..Len(buffer)

\* line 637, leaving the with block on the exception: close() first
\* flushes what the file object still holds, m bytes of it reaching the
\* file at the writer's offset; the descriptor is still open and the lock
\* still held
WCloseRaised(w, m) ==
    /\ wpc[w] = "raised"
    /\ m \in CloseTakes(wbuf[w])
    /\ file' = WriteAt(file, woff[w], SubSeq(wbuf[w], 1, m))
    /\ woff' = [woff EXCEPT ![w] = woff[w] + m]
    /\ wbuf' = [wbuf EXCEPT ![w] = <<>>]
    /\ wpc' = [wpc EXCEPT ![w] = "closing"]
    /\ UNCHANGED <<writerRest, lock>>

\* line 637, the rest of close(): the descriptor is closed, which drops the
\* lock; the IOError is caught at line 644 and line 647 returns False
WCloseDrops(w) ==
    /\ wpc[w] = "closing"
    /\ lock' = NoWriter
    /\ wpc' = [wpc EXCEPT ![w] = "returned_false"]
    /\ UNCHANGED <<writerRest, file, wbuf, woff>>

\* the steps of a process in write_json_to_file_with_lock behind line 637
\* when every flush takes all its bytes, and the steps of a flush that fails
WriterGoesOn(w) ==
    \/ WLock(w)
    \/ WWrite(w)
    \/ WFlush(w)
    \/ WUnlock(w)
    \/ WClose(w)
    \/ WLockFails(w)

WriterCut(w) ==
    \/ \E n \in FlushCuts(wbuf[w]) : WFlushFails(w, n)
    \/ \E m \in CloseTakes(wbuf[w]) : WCloseRaised(w, m)
    \/ WCloseDrops(w)

readerRest == <<cfgVars, processVars, settingVars, current_time,
                validate_regions, failed_regions, response, sessionVars,
                selectVars, file, old_content, lock, wpc, wdata, wbuf, woff,
                opVars>>

\* load_conf_file, line 124: open(filename); the file exists
ROpen ==
    /\ rpc = "start"
    /\ rpc' = "opened"
    /\ UNCHANGED <<readerRest, raw_region_configs, error_logs, rdata, rsize>>

\* the least size of the buffer f.read() reads into
SMALLCHUNK == 8192

\* line 125, f.read() of a file object opened for reading: the size the file
\* has when the read begins, and one byte more, is what the first read(2)
\* asks for
BufferSize(size) == IF size > 0 THEN size + 1 ELSE SMALLCHUNK

\* the buffer is full: it grows by its size and 256 bytes, by SMALLCHUNK at
\* least (sizes up to 65536)
NewBufferSize(currentsize) ==
    currentsize + Max(256 + currentsize, SMALLCHUNK)

RStat ==
    /\ rpc = "opened"
    /\ rsize' = BufferSize(Len(file))
    /\ rpc' = "reading"
    /\ UNCHANGED <<readerRest, raw_region_configs, error_logs, rdata>>

\* the buffer before a read(2): grown when it is full
GrownSize(bytes_read, bufsize) ==
    IF bytes_read >= bufsize THEN NewBufferSize(bytes_read) ELSE bufsize

\* the bytes one read(2) returns: those the file holds from the reader's
\* offset on, as many as the buffer has room for
ReadAsk(bytes_read, bufsize) == GrownSize(bytes_read, bufsize) - bytes_read

ReadTakes(content, bytes_read, bufsize) ==
    Min(ReadAsk(bytes_read, bufsize), Max(Len(content) - bytes_read, 0))

\* line 125, f.read(): one read(2) that returns bytes; it takes no lock
RRead ==
    /\ rpc = "reading"
    /\ ReadTakes(file, Len(rdata), rsize) > 0
    /\ rdata' = rdata \o SubSeq(file, Len(rdata) + 1,
                                Len(rdata) + ReadTakes(file, Len(rdata), rsize))
    /\ rsize' = GrownSize(Len(rdata), rsize)
    /\ UNCHANGED <<readerRest, raw_region_configs, error_logs, rpc>>

\* lines 125-134: the read(2) that returns nothing ends f.read(); json.loads
\* of what was read; on an exception the error is logged and
\* raw_region_configs stays as it was
RLoad ==
    /\ rpc = "reading"
    /\ ReadTakes(file, Len(rdata), rsize) = 0
    /\ LET parsed == Loads(rdata)
       IN IF parsed.ok
          THEN /\ raw_region_configs' = parsed.value
               /\ UNCHANGED error_logs
          ELSE /\ error_logs' = Append(error_logs, "load_failed")
               /\ UNCHANGED raw_region_configs
    /\ rsize' = GrownSize(Len(rdata), rsize)
    /\ rpc' = "done"
    /\ UNCHANGED <<readerRest, rdata>>

----------------------------------------------------------------------------
(* Values of the variables a specification does not use *)

SessionIdle ==
    /\ pc = "idle"
    /\ region_index = 1
    /\ one_region_retry_time = 0
    /\ retry_time = 0
    /\ model_id = BaseModelId
    /\ output = "False"
    /\ session = 0
    /\ calls = <<>>
    /\ blamed = {}
    /\ failed_at_entry = 0
    /\ messages = "none"
    /\ extract_content = FALSE

\* a call of load_conf_file, disable_region_in_conf or
\* write_json_to_file_with_lock as the history keeps it
OpRecord(op, ok, arg, regions, before, logs, out) ==
    [op |-> op,             \* "load", "disable" or "write"
     ok |-> ok,             \* load: parsed; disable: returned a list, not
                            \* None; write: returned True
     arg |-> arg,           \* disable: disable_regions; write: data
     regions |-> regions,   \* disable: the regions it went through
     before |-> before,     \* raw_region_configs when the call began
     logs |-> logs,         \* Len(error_logs) when the call began
     out |-> out]           \* disable: the list it returned

NoOp == OpRecord("none", TRUE, <<>>, <<>>, <<>>, 0, <<>>)

NoHelper == [exists |-> FALSE]

\* one helper has been constructed
Alone ==
    /\ active = 1
    /\ parked = NoHelper

\* no setter and no wrapper method has run on the helper: the attributes are
\* those of the class (lines 33 and 39) and of __init__ (line 71)
NothingSet ==
    /\ api_method = "converse"
    /\ trace = "unset"
    /\ self_ENABLE_CROSS_REGION_INFERENCE = "unset"
    /\ self_model_id = BaseModelId

OpsIdle ==
    /\ ops = 0
    /\ last_op = NoOp
    /\ prev_op = NoOp

\* the writer that is the helper's own process
Me == 1

\* the helper is in no call of write_json_to_file_with_lock, and no other
\* process has the file open
OwnFile ==
    /\ lock = NoWriter
    /\ wpc = <<"idle">>
    /\ wdata = <<<<>>>>
    /\ wbuf = <<<<>>>>
    /\ woff = <<0>>
    /\ rpc = "start"
    /\ rdata = <<>>
    /\ rsize = 0

FileIdle ==
    /\ file = <<>>
    /\ old_content = <<>>
    /\ OwnFile

DefaultConfig ==
    /\ MAX_RETRY_TIME = 5
    /\ MAX_RETRY_TIMES_FOR_EACH_REGION = 1
    /\ PRIMARY_REGION_RANDOM_DISTRIBUTION = TRUE
    /\ ENABLE_CROSS_REGION_INFERENCE = FALSE
    /\ MULTI_REGION_RETRY = TRUE

----------------------------------------------------------------------------
(* disable_region_in_conf (lines 593-618), load_conf_file as a single     *)
(* step and write_json_to_file_with_lock step by step, of a helper that    *)
(* has the endpoint file to itself.                                        *)

\* line 29
NEXT_RETRY_TIME_WINDOW == 3600

\* line 602
NextTimestamp(now) == now + NEXT_RETRY_TIME_WINDOW

\* lines 605-606: `if not disable_regions: disable_regions = self.failed_regions`
EffectiveDisable(disable_regions, failed) ==
    IF disable_regions = <<>> THEN failed ELSE disable_regions

DisabledRecordExtends(rec, next_timestamp) ==
    [rec EXCEPT !.next_available_time =
                    rec.next_available_time + NEXT_RETRY_TIME_WINDOW]

\* line 616: region_data['next_available_time'] = next_timestamp
DisabledRecord(rec, next_timestamp) ==
    [rec EXCEPT !.next_available_time = next_timestamp]

DisableInAll(configs, regions, next_timestamp) ==
    [i \in DOMAIN configs |-> DisabledRecord(configs[i], next_timestamp)]

\* lines 614-616: the loop over self.raw_region_configs
DisableIn(configs, regions, next_timestamp) ==
    [i \in DOMAIN configs |->
        IF configs[i].region \in Range(regions)
        THEN DisabledRecord(configs[i], next_timestamp)
        ELSE configs[i]]

\* the loop of lines 614-616 over a value json.loads returned: the records
\* before an item that is no record are assigned, that item raises TypeError
DisableLoop(configs, regions, next_timestamp) ==
    IF IsTop(configs) THEN configs
    ELSE DisableIn(Records(configs), regions, next_timestamp)
             \o SubSeq(configs, FirstOdd(configs), Len(configs))

\* disable_region_in_conf(disable_regions): the loop assigns into the records
\* of self.raw_region_configs, and line 618 returns that same list
Disable(disable_regions) ==
    /\ NoCallRunning
    /\ Modelled(raw_region_configs)
    /\ LET regions == EffectiveDisable(disable_regions, failed_regions)
       IN IF Len(regions) = 0
          THEN /\ UNCHANGED raw_region_configs
               /\ last_op' = OpRecord("disable", FALSE, disable_regions, regions,
                                      raw_region_configs, Len(error_logs), <<>>)
          ELSE /\ raw_region_configs' =
                     DisableLoop(raw_region_configs, regions,
                                 NextTimestamp(current_time))
               /\ last_op' =
                     IF RaisesTypeError(raw_region_configs)
                     THEN OpRecord("disable_raised", FALSE, disable_regions,
                                   regions, raw_region_configs,
                                   Len(error_logs), <<>>)
                     ELSE OpRecord("disable", TRUE, disable_regions, regions,
                                   raw_region_configs, Len(error_logs),
                                   raw_region_configs')
    /\ prev_op' = last_op
    /\ ops' = ops + 1
    /\ UNCHANGED <<cfgVars, processVars, settingVars, current_time, validate_regions, failed_regions,
                   error_logs, response, sessionVars, selectVars, fileVars>>

LoadedConfigsOrEmpty(before, io_ok, parsed) ==
    IF io_ok /\ parsed.ok THEN parsed.value ELSE <<>>

\* lines 123-127: raw_region_configs is assigned after open, read and
\* json.loads all went through
LoadedConfigs(before, io_ok, parsed) ==
    IF io_ok /\ parsed.ok THEN parsed.value ELSE before

CandidatesReselected(candidates, loaded) ==
    GetValidateRegions(Records(loaded), current_time,
                       PRIMARY_REGION_RANDOM_DISTRIBUTION, 0)

\* load_conf_file assigns self.raw_region_configs and nothing else; the
\* selection is run by __init__ (line 108), not by the load
CandidatesAfterLoad(candidates, loaded) == candidates

\* load_conf_file (lines 111-134) in one step; io_ok is whether open and read
\* went through (the file is there and readable)
Reload(io_ok) ==
    /\ NoCallRunning
    /\ LET parsed == IF io_ok THEN Loads(file) ELSE ParseError
       IN /\ raw_region_configs' =
                LoadedConfigs(raw_region_configs, io_ok, parsed)
          /\ error_logs' = IF parsed.ok THEN error_logs
                           ELSE Append(error_logs, "load_failed")
          /\ last_op' = OpRecord("load", parsed.ok, <<>>, <<>>,
                                 raw_region_configs, Len(error_logs), <<>>)
    /\ validate_regions' = CandidatesAfterLoad(validate_regions,
                                               raw_region_configs')
    /\ prev_op' = last_op
    /\ ops' = ops + 1
    /\ UNCHANGED <<cfgVars, processVars, settingVars, current_time, failed_regions, response,
                   sessionVars, selectVars, fileVars>>

\* write_json_to_file_with_lock(data) is called on the helper (line 621);
\* its steps are those of a writer
PersistCall(data) ==
    /\ NoCallRunning
    /\ ~HasFloat(TreeOf(data))
    /\ wdata' = [wdata EXCEPT ![Me] = data]
    /\ wpc' = [wpc EXCEPT ![Me] = "start"]
    /\ UNCHANGED <<cfgVars, processVars, settingVars, helperVars, sessionVars,
                   selectVars, file, old_content, lock, wbuf, woff, rpc,
                   rdata, rsize, opVars>>

\* lines 643 and 647: the caller has the value the call returned
PersistReturn ==
    /\ wpc[Me] \in {"returned_true", "returned_false"}
    /\ last_op' = OpRecord("write", wpc[Me] = "returned_true", wdata[Me],
                           <<>>, raw_region_configs, Len(error_logs), <<>>)
    /\ prev_op' = last_op
    /\ ops' = ops + 1
    /\ wpc' = [wpc EXCEPT ![Me] = "idle"]
    /\ wdata' = [wdata EXCEPT ![Me] = <<>>]
    /\ woff' = [woff EXCEPT ![Me] = 0]
    /\ UNCHANGED <<cfgVars, processVars, settingVars, helperVars, sessionVars,
                   selectVars, file, old_content, lock, wbuf, rpc, rdata,
                   rsize>>

\* the steps of a call of write_json_to_file_with_lock on the helper, behind
\* the call itself
Persist ==
    \/ WOpen(Me)
    \/ WOpenFails(Me)
    \/ WriterGoesOn(Me)
    \/ WriterCut(Me)
    \/ PersistReturn

----------------------------------------------------------------------------
(* Spec: retry sessions on a constructed helper.                          *)
(* A session depends on the snapshot only through the candidate list, so   *)
(* the snapshots are the prefixes of one list of eligible regions.         *)

SessionSnapshots ==
    {[i \in 1..n |-> [region |-> RegionNames[i], primary |-> FALSE,
                      next_available_time |-> 0]] : n \in 0..MaxRegions}

\* the helper after __init__ with auto_load_config=True (lines 68-108)
Init ==
    /\ MAX_RETRY_TIME \in 0..MaxRetryBound
    /\ MAX_RETRY_TIMES_FOR_EACH_REGION \in 0..MaxPerRegionBound
    /\ PRIMARY_REGION_RANDOM_DISTRIBUTION = TRUE
    /\ ENABLE_CROSS_REGION_INFERENCE = FALSE
    /\ MULTI_REGION_RETRY = TRUE
    /\ current_time = MaxTime
    /\ raw_region_configs \in SessionSnapshots
    /\ select_arg = raw_region_configs
    /\ \E k \in FirstIndexChoices(raw_region_configs, current_time,
                                  PRIMARY_REGION_RANDOM_DISTRIBUTION) :
           selected = GetValidateRegions(raw_region_configs, current_time,
                                         PRIMARY_REGION_RANDOM_DISTRIBUTION, k)
    /\ validate_regions = selected
    /\ failed_regions = <<>>
    /\ error_logs = <<>>
    /\ response = "none"
    /\ SessionIdle
    /\ OpsIdle
    /\ Alone
    /\ NothingSet
    /\ FileIdle

\* what the transport does and, when it returns a response, the response
Answers ==
    {<<outcome, "none">> : outcome \in Outcomes \ {"success"}}
        \cup {<<"success", shape>> : shape \in Responses}

\* a call that returns the response itself does not look into it: one
\* response stands for all
AnswersTo(extract) ==
    IF extract THEN Answers
    ELSE {answer \in Answers : answer[2] \in {"none", "text"}}

\* the helper has been used through bedrock_converse_with_retry alone, with
\* the converse method and without extraction
PlainSoFar ==
    /\ api_method = "converse"
    /\ trace = "unset"
    /\ extract_content = FALSE

\* a helper is called once in any way, or any number of times plainly
MayCall(extract) == session = 0 \/ (PlainSoFar /\ ~extract)

\* the api method is chosen, by set_api_method or by a wrapper method, on a
\* helper that has not been called yet
NotCalledYet == session = 0

Next ==
    \/ \E messages_empty \in BOOLEAN, extract \in BOOLEAN :
          MayCall(extract) /\ Call(messages_empty, extract)
    \/ \E method \in VALID_BEDROCK_APIS :
          NotCalledYet /\ SetApiMethod(method)
    \/ \E method \in VALID_BEDROCK_APIS, messages_empty \in BOOLEAN,
          trace_kwarg \in {"absent", "ENABLED", "DISABLED"} :
          NotCalledYet /\ Wrapper(method, messages_empty, "", trace_kwarg)
    \/ NextRegion
    \/ \E answer \in AnswersTo(extract_content) : Invoke(answer[1], answer[2])
    \/ LeaveRegion

Spec == Init /\ [][Next]_vars

----------------------------------------------------------------------------
(* SpecSelect: region selection over every snapshot of at most             *)
(* SelMaxRecords records, every current time and both settings of          *)
(* PRIMARY_REGION_RANDOM_DISTRIBUTION. Selection only compares              *)
(* next_available_time with current_time, so each record's time is one      *)
(* second before, equal to, or one second after current_time.               *)

SelectSnapshots(now) ==
    SnapshotsOver([region : RegionsUpTo(SelMaxRecords), primary : BOOLEAN,
                   next_available_time : {now - 1, now, now + 1}], SelMaxRecords)

\* values of json.loads that are no record lists: a list with a number
\* behind its record, and one object without the brackets of a list
OddSnapshots(now) ==
    LET rec == [region |-> RegionNames[1], primary |-> TRUE,
                next_available_time |-> now]
    IN {Loads(text).value : text \in LaterContents(<<rec>>) \ {Dumps(<<rec>>)}}

\* __init__ after load_conf_file (line 105), before the selection of line 108
InitSelect ==
    /\ MAX_RETRY_TIME = 5
    /\ MAX_RETRY_TIMES_FOR_EACH_REGION = 1
    /\ PRIMARY_REGION_RANDOM_DISTRIBUTION \in BOOLEAN
    /\ ENABLE_CROSS_REGION_INFERENCE = FALSE
    /\ MULTI_REGION_RETRY = TRUE
    /\ current_time \in 1..MaxTime
    /\ raw_region_configs \in SelectSnapshots(current_time)
                                 \cup OddSnapshots(current_time)
    /\ validate_regions = <<>>
    /\ selected = <<>>
    /\ select_arg = <<>>
    /\ failed_regions = <<>>
    /\ error_logs = <<>>
    /\ response = "none"
    /\ pc = "constructing"
    /\ region_index = 1
    /\ one_region_retry_time = 0
    /\ retry_time = 0
    /\ model_id = BaseModelId
    /\ output = "False"
    /\ session = 0
    /\ calls = <<>>
    /\ blamed = {}
    /\ failed_at_entry = 0
    /\ messages = "none"
    /\ extract_content = FALSE
    /\ OpsIdle
    /\ Alone
    /\ NothingSet
    /\ FileIdle

\* arguments of a later call of get_validate_regions_from_conf: none (the
\* default, []), a float zero, which `not` takes for none as well, a number
\* that is not zero, and a list of one record
SelectArgs(now) ==
    {<<>>,
     <<[top |-> JFloat(<<"0", ".", "0">>)]>>,
     <<[top |-> JFloat(<<"-", "0", ".", "0">>)]>>,
     <<[top |-> JFloat(<<"0", ".", "5">>)]>>,
     <<[region |-> RegionNames[1], primary |-> TRUE,
        next_available_time |-> now]>>}

NextSelect ==
    \/ ConstructSelect
    \/ \E region_configs \in SelectArgs(current_time) :
          SelectAgain(region_configs)

SpecSelect == InitSelect /\ [][NextSelect]_vars

----------------------------------------------------------------------------
(* SpecFile: two processes in write_json_to_file_with_lock and one in      *)
(* load_conf_file, on the same endpoint file, interleaved step by step.    *)
(* A flush fails behind any byte.  The processes of a run and its failed   *)
(* flushes are FileMaxLoad together: three processes when every flush      *)
(* takes its bytes, two when one of them fails.                            *)

\* the times a record of the file holds: available, or put aside by a
\* helper's disable_region_in_conf
FileTimes == {0, NextTimestamp(MaxTime)}

\* record lists of 1..FileMaxRecords records: the i-th record is the one of
\* the i-th region, and the records of a list hold the same time
FilePayloads ==
    {[i \in 1..n |-> [region |-> RegionNames[i], primary |-> FALSE,
                      next_available_time |-> t]] :
        n \in 1..FileMaxRecords, t \in FileTimes}

\* what the file holds before the writers begin: a list of one record that
\* is available
FileContents ==
    {Dumps(s) : s \in {p \in FilePayloads :
                            Len(p) = 1 /\ p[1].next_available_time = 0}}

\* what the two writers are given: the first a list whose records were put
\* aside, the second nothing or a list of one available record
FileArgs ==
    {a \in [Writers -> FilePayloads \cup {<<>>}] :
        /\ a[1] # <<>> /\ a[1][1].next_available_time # 0
        /\ a[2] # <<>> => Len(a[2]) = 1 /\ a[2][1].next_available_time = 0}

InitFile ==
    /\ DefaultConfig
    /\ current_time = MaxTime
    /\ raw_region_configs = <<>>
    /\ validate_regions = <<>>
    /\ selected = <<>>
    /\ select_arg = <<>>
    /\ failed_regions = <<>>
    /\ error_logs = <<>>
    /\ response = "none"
    /\ SessionIdle
    /\ OpsIdle
    /\ Alone
    /\ NothingSet
    /\ old_content \in FileContents
    /\ file = old_content
    /\ lock = NoWriter
    /\ wdata \in FileArgs
    /\ wpc = [w \in Writers |-> "start"]
    /\ wbuf = [w \in Writers |-> <<>>]
    /\ woff = [w \in Writers |-> 0]
    /\ rpc = "start"
    /\ rdata = <<>>
    /\ rsize = 0

\* a process may begin, or a flush fail: the processes that have begun,
\* with the flushes that have failed and are not yet closed or have left
\* bytes in the file, are fewer than FileMaxLoad
Room ==
    LET begun == Cardinality({w \in Writers : wpc[w] # "start"})
                     + (IF rpc # "start" THEN 1 ELSE 0)
        cuts == Cardinality({w \in Writers :
                                \/ wpc[w] \in {"raised", "closing"}
                                \/ wpc[w] = "returned_false" /\ woff[w] > 0})
    IN begun + cuts < FileMaxLoad

NextFile ==
    \/ \E w \in Writers : Room /\ WOpen(w)
    \/ \E w \in Writers : Room /\ WOpenFails(w)
    \/ \E w \in Writers : WriterGoesOn(w)
    \/ \E w \in Writers :
          \E n \in FlushCuts(wbuf[w]) : Room /\ WFlushFails(w, n)
    \/ \E w \in Writers :
          \E m \in CloseTakes(wbuf[w]) : WCloseRaised(w, m)
    \/ \E w \in Writers : WCloseDrops(w)
    \/ Room /\ ROpen
    \/ RStat
    \/ RRead
    \/ RLoad

SpecFile == InitFile /\ [][NextFile]_vars

----------------------------------------------------------------------------
(* SpecCross: retry sessions with cross-region inference switched on or    *)
(* off and MULTI_REGION_RETRY set or not, over snapshots whose records      *)
(* carry region_profile_prefix or not (the field is optional in an          *)
(* endpoint record).                                                        *)

CrossRecords(i) ==
    {[region |-> RegionNames[i], primary |-> FALSE, next_available_time |-> 0]}
    \cup
    {[region |-> RegionNames[i], primary |-> FALSE, next_available_time |-> 0,
      region_profile_prefix |-> p] : p \in Prefixes}

CrossSnapshots ==
    UNION {{s \in [1..n -> UNION {CrossRecords(i) : i \in 1..n}] :
               \A i \in 1..n : s[i] \in CrossRecords(i)} : n \in 0..MaxRegions}

\* the helper after __init__ with auto_load_config=True (lines 68-108)
InitCross ==
    /\ MAX_RETRY_TIME = MaxRetryBound
    /\ MAX_RETRY_TIMES_FOR_EACH_REGION \in 1..MaxPerRegionBound
    /\ PRIMARY_REGION_RANDOM_DISTRIBUTION = TRUE
    /\ ENABLE_CROSS_REGION_INFERENCE \in BOOLEAN
    /\ MULTI_REGION_RETRY \in BOOLEAN
    /\ current_time = MaxTime
    /\ raw_region_configs \in CrossSnapshots
    /\ select_arg = raw_region_configs
    /\ selected = GetValidateRegions(raw_region_configs, current_time,
                                     PRIMARY_REGION_RANDOM_DISTRIBUTION, 0)
    /\ validate_regions = selected
    /\ failed_regions = <<>>
    /\ error_logs = <<>>
    /\ response = "none"
    /\ SessionIdle
    /\ OpsIdle
    /\ Alone
    /\ NothingSet
    /\ FileIdle

\* calls of bedrock_converse_with_retry with the switch set on the class, or
\* by set_cross_region_inference between calls; the model id is the
\* constructor's, or one given to set_model_id or to a wrapper method
NextCross ==
    \/ Call(FALSE, FALSE)
    \/ \E model_id_arg \in ModelIdArgs :
          NotCalledYet /\ SetModelId(model_id_arg)
    \/ \E method \in {"converse", "invoke_model"}, modelId \in ModelIdArgs :
          NotCalledYet /\ Wrapper(method, FALSE, modelId, "absent")
    \/ \E enable_cross_region \in BOOLEAN :
          SetCrossRegionInference(enable_cross_region)
    \/ NextRegion
    \/ \E outcome \in Outcomes : Invoke(outcome, "text")
    \/ LeaveRegion

SpecCross == InitCross /\ [][NextCross]_vars

----------------------------------------------------------------------------
(* SpecLife: one helper and its endpoint file over the helper's life:      *)
(* calls of bedrock_converse_with_retry, disable_region_in_conf,           *)
(* write_json_to_file_with_lock, load_conf_file and                        *)
(* get_validate_regions_from_conf, in any order, with one call of          *)
(* bedrock_converse_with_retry at most (Spec has the helpers that are      *)
(* called again).  write_json_to_file_with_lock runs step by step, and     *)
(* its flush fails behind any byte.                                        *)

LifeMaxOps == 2          \* operations on the helper: calls of
                         \* bedrock_converse_with_retry, load, disable, write

\* a region is available (0) or was put aside by somebody, until later than
\* this helper's own window
LifeTimes(now) == {0, now + 2 * NEXT_RETRY_TIME_WINDOW}

\* the first record carries the optional region_profile_prefix, the others
\* do not
LifeRecords(i, now) ==
    IF i = 1
    THEN [region : {RegionNames[i]}, primary : {FALSE},
          next_available_time : LifeTimes(now), region_profile_prefix : {"us"}]
    ELSE [region : {RegionNames[i]}, primary : {FALSE},
          next_available_time : LifeTimes(now)]

LifeSnapshots(now) ==
    UNION {{s \in [1..n -> UNION {LifeRecords(i, now) : i \in 1..n}] :
               \A i \in 1..n : s[i] \in LifeRecords(i, now)} : n \in 1..MaxRegions}

\* explicit disable_regions arguments: none, or one region
DisableArgs == {<<>>} \cup {<<RegionNames[i]>> : i \in 1..MaxRegions}

\* the helper after __init__ with auto_load_config=True (lines 68-108): the
\* file was loaded and the candidates were selected
HelperBuilt ==
    /\ DefaultConfig
    /\ current_time = MaxTime
    /\ old_content \in {Dumps(s) : s \in LifeSnapshots(current_time)}
    /\ raw_region_configs = Loads(old_content).value
    /\ select_arg = raw_region_configs
    /\ selected = GetValidateRegions(raw_region_configs, current_time,
                                     PRIMARY_REGION_RANDOM_DISTRIBUTION, 0)
    /\ validate_regions = selected
    /\ failed_regions = <<>>
    /\ error_logs = <<>>
    /\ response = "none"
    /\ SessionIdle
    /\ OpsIdle
    /\ Alone
    /\ NothingSet
    /\ OwnFile

\* the file holds what the helper loaded, or, behind a helper built from one
\* record, what somebody put there since
InitLife ==
    /\ HelperBuilt
    /\ file \in IF Len(raw_region_configs) = 1
                THEN LaterContents(raw_region_configs)
                ELSE {old_content}

\* `data` given to write_json_to_file_with_lock: the list
\* disable_region_in_conf returned, which is the helper's own list (main.py
\* lines 37-41, __del__ lines 661-665)
WriteArgs == {raw_region_configs}

MoreOps == session + ops < LifeMaxOps

\* what the transport answers in these runs: a response, an error that is
\* not blamed on the region, an error that is
LifeOutcomes == {"success", "validation", "transport"}

NextLife ==
    \/ \E disable_regions \in DisableArgs : MoreOps /\ Disable(disable_regions)
    \/ \E io_ok \in BOOLEAN : MoreOps /\ Reload(io_ok)
    \/ \E data \in WriteArgs : MoreOps /\ PersistCall(data)
    \/ Persist
    \/ MoreOps /\ session = 0 /\ Wrapper("converse", FALSE, "", "absent")
    \/ SelectAgain(<<>>)
    \/ NextRegion
    \/ \E outcome \in LifeOutcomes : Invoke(outcome, "text")
    \/ LeaveRegion

SpecLife == InitLife /\ [][NextLife]_vars

----------------------------------------------------------------------------
(* SpecTrip: a helper writes a record list to the endpoint file with       *)
(* write_json_to_file_with_lock and then loads the file with               *)
(* load_conf_file, for lists of at most FileMaxRecords records.  The       *)
(* write runs step by step, and its flush fails behind any byte.           *)

\* what a record holds besides its region
TripFields ==
    [primary : BOOLEAN, next_available_time : {0, MaxTime}]
    \cup
    [primary : BOOLEAN, next_available_time : {0, MaxTime},
     region_profile_prefix : Prefixes]

\* the i-th record of a list is the one of the i-th region; the first
\* record holds any of TripFields, the records behind it the required
\* fields only
TripPayloads ==
    UNION {{[i \in 1..n |->
                [region |-> RegionNames[i]]
                    @@ (IF i = 1 THEN f
                        ELSE [primary |-> FALSE, next_available_time |-> 0])] :
               f \in TripFields} : n \in 0..FileMaxRecords}

NextTrip ==
    \/ /\ ops = 0
       /\ \E data \in TripPayloads : PersistCall(data)
    \/ Persist
    \/ /\ ops = 1
       /\ \E io_ok \in BOOLEAN : Reload(io_ok)

\* the helper was built from one record, and the file holds what it loaded
InitTrip ==
    /\ HelperBuilt
    /\ Len(raw_region_configs) = 1
    /\ file = old_content

SpecTrip == InitTrip /\ [][NextTrip]_vars

----------------------------------------------------------------------------
(* Properties of the shared endpoint file, checked under SpecFile *)

\* C2 (as claimed): while one process runs write_json_to_file_with_lock, a
\* process that runs load_conf_file reads either the complete previous
\* content or the complete new content of the file.
C2_ReaderSeesOldOrNew ==
    (rpc = "done" /\ wpc[2] = "start" /\ wdata[1] # <<>>) =>
        rdata \in {old_content, Dumps(wdata[1])}

\* C3 (as claimed): when two processes have run write_json_to_file_with_lock
\* with different payloads, the file holds exactly the complete payload of
\* one of them.
C3_WritersDoNotInterleave ==
    (/\ \A w \in Writers : wpc[w] = "returned_true"
     /\ wdata[1] # wdata[2]) =>
        file \in {Dumps(wdata[w]) : w \in Writers}

\* C14 (as claimed): when write_json_to_file_with_lock has returned False and
\* no other process has written, the endpoint file holds what it held
\* before the call.
C14_FailedWriteLeavesFile ==
    (wpc[1] = "returned_false" /\ wpc[2] = "start") => file = old_content

----------------------------------------------------------------------------
(* Properties of region selection, checked under SpecSelect *)

\* the record of region r in the list that was filtered
RecordOf(r) ==
    select_arg[CHOOSE j \in DOMAIN select_arg : select_arg[j].region = r]

PositionOf(r) == CHOOSE j \in DOMAIN select_arg : select_arg[j].region = r

IsEligible(rec) == rec.next_available_time <= current_time

\* list[a..b] follows the order of the snapshot
InSnapshotOrder(list, a, b) ==
    \A x, y \in a..b : x < y => PositionOf(list[x]) < PositionOf(list[y])

Selected == pc \notin {"constructing", "unconstructed"}

\* C4: get_validate_regions_from_conf never returns a region whose
\* next_available_time is greater than current_time, in both settings of
\* PRIMARY_REGION_RANDOM_DISTRIBUTION, and a region whose
\* next_available_time equals current_time is returned.
C4_OnlyEligibleReturned ==
    Selected =>
        /\ \A i \in DOMAIN selected :
              RecordOf(selected[i]).next_available_time <= current_time
        /\ \A j \in DOMAIN select_arg :
              select_arg[j].next_available_time = current_time
                  => select_arg[j].region \in Range(selected)

\* a primary region that is still cooling down is left out while a region
\* whose next_available_time is exactly current_time is returned
C4_Witness ==
    /\ Selected
    /\ PRIMARY_REGION_RANDOM_DISTRIBUTION
    /\ \E j \in DOMAIN select_arg :
          /\ select_arg[j].primary
          /\ select_arg[j].next_available_time > current_time
          /\ select_arg[j].region \notin Range(selected)
    /\ \E i \in DOMAIN selected :
          RecordOf(selected[i]).next_available_time = current_time

\* number of eligible primaries of the filtered list
EligiblePrimaries ==
    Cardinality({j \in DOMAIN select_arg :
                    IsEligible(select_arg[j]) /\ select_arg[j].primary})

\* C5: the returned list holds every eligible region exactly once. With
\* primary preference on and an eligible primary: an eligible primary leads,
\* then the remaining eligible primaries in snapshot order, then the eligible
\* non-primaries in snapshot order. With primary preference off: the eligible
\* regions in snapshot order.
C5_SelectionOrder ==
    Selected =>
        /\ \A j \in DOMAIN select_arg :
              Count(selected, select_arg[j].region) =
                  (IF IsEligible(select_arg[j]) THEN 1 ELSE 0)
        /\ Len(selected) =
              Cardinality({j \in DOMAIN select_arg : IsEligible(select_arg[j])})
        /\ IF PRIMARY_REGION_RANDOM_DISTRIBUTION /\ EligiblePrimaries > 0
           THEN /\ \A i \in DOMAIN selected :
                     RecordOf(selected[i]).primary <=> i <= EligiblePrimaries
                /\ InSnapshotOrder(selected, 2, EligiblePrimaries)
                /\ InSnapshotOrder(selected, EligiblePrimaries + 1, Len(selected))
           ELSE InSnapshotOrder(selected, 1, Len(selected))

\* three eligible primaries, the last of them leading, the other two in
\* snapshot order behind it
C5_Witness ==
    /\ Selected
    /\ PRIMARY_REGION_RANDOM_DISTRIBUTION
    /\ EligiblePrimaries >= 3
    /\ \A i \in 2..EligiblePrimaries :
          PositionOf(selected[1]) > PositionOf(selected[i])

----------------------------------------------------------------------------
(* Properties of the retry session, checked under Spec *)

IsDistinct(s) == \A i, j \in DOMAIN s : s[i] = s[j] => i = j

\* invocations of region r in the running call
InvocationsOf(r) == Cardinality({i \in DOMAIN calls : calls[i].region = r})

\* the part of failed_regions the running call appended
AppendedThisCall ==
    SubSeq(failed_regions, failed_at_entry + 1, Len(failed_regions))

\* C1: in one call of bedrock_converse_with_retry the transport is invoked at
\* most MAX_RETRY_TIME times in total, across all regions, whatever the
\* candidate list, the two limits and the outcomes are.
C1_TransportWithinBudget == Len(calls) <= MAX_RETRY_TIME

\* a failed session that used the whole budget on two regions although the
\* per-region limits would have allowed more invocations
C1_Witness ==
    /\ pc = "done"
    /\ output = "False"
    /\ MAX_RETRY_TIME >= 2
    /\ Len(calls) = MAX_RETRY_TIME
    /\ Len(validate_regions) * MAX_RETRY_TIMES_FOR_EACH_REGION > MAX_RETRY_TIME
    /\ \E i, j \in DOMAIN calls : calls[i].region # calls[j].region

\* C6 (as claimed): every region in failed_regions had at least one invocation that ended
\* in a transport-class error or an empty response; a region that only ever
\* produced validation-class errors is not in failed_regions.
C6_ValidationNeverBlamed ==
    \A i \in DOMAIN failed_regions : failed_regions[i] \in blamed

\* C7 (as claimed): when a session has ended, every region that had an
\* invocation end in a transport-class error is in failed_regions.
C7_TransportErrorAlwaysRecorded ==
    pc = "done" =>
        \A i \in DOMAIN calls :
            calls[i].outcome = "transport" =>
                calls[i].region \in Range(failed_regions)

\* C8: within one session a region is appended to failed_regions at most
\* once, however many of its sub-attempts fail (candidate regions distinct).
C8_AppendedOncePerSession ==
    IsDistinct(validate_regions) =>
        \A r \in Range(validate_regions) : Count(AppendedThisCall, r) <= 1

\* two sub-attempts of one region failed endpoint-side in the same session
C8_Witness ==
    /\ IsDistinct(validate_regions)
    /\ \E i, j \in DOMAIN calls :
          /\ i < j
          /\ calls[i].region = calls[j].region
          /\ calls[i].outcome \in {"empty", "transport"}
          /\ calls[j].outcome \in {"empty", "transport"}
          /\ Count(AppendedThisCall, calls[i].region) = 1

\* C9 (as claimed): over the helper's lifetime failed_regions holds each
\* region at most once; a region failing again in a later call is not added
\* a second time.
C9_FailedRegionsHasNoDuplicates ==
    \A r \in Range(failed_regions) : Count(failed_regions, r) <= 1

\* C10: within one session no region is invoked more than
\* min(MAX_RETRY_TIMES_FOR_EACH_REGION, MAX_RETRY_TIME) times, also when
\* MAX_RETRY_TIMES_FOR_EACH_REGION is larger than MAX_RETRY_TIME.
C10_PerRegionBound ==
    \A r \in Range(validate_regions) :
        InvocationsOf(r) <= Min(MAX_RETRY_TIMES_FOR_EACH_REGION, MAX_RETRY_TIME)

\* the per-region limit is larger than the budget and the budget stopped the
\* sub-attempts of a region
C10_Witness ==
    /\ pc = "done"
    /\ MAX_RETRY_TIME >= 1
    /\ MAX_RETRY_TIMES_FOR_EACH_REGION > MAX_RETRY_TIME
    /\ \E r \in Range(validate_regions) : InvocationsOf(r) = MAX_RETRY_TIME

\* C11: a call of bedrock_converse_with_retry with an empty messages payload,
\* or on a helper whose candidate list is empty, returns False at once: the
\* transport is not invoked, the loop that spends the retry budget is never
\* entered and failed_regions is as long as it was when the call began.
C11_RefusedAtEntry ==
    (session > 0 /\ (messages = "empty" \/ validate_regions = <<>>)) =>
        /\ pc = "done"
        /\ output = "False"
        /\ calls = <<>>
        /\ Len(failed_regions) = failed_at_entry

\* a call with empty messages on a helper that has candidates and has
\* already recorded a failed region in an earlier call
C11_Witness ==
    /\ session = 2
    /\ messages = "empty"
    /\ validate_regions # <<>>
    /\ failed_regions # <<>>
    /\ pc = "done"

----------------------------------------------------------------------------
(* Properties of the retry session with cross-region inference, checked    *)
(* under SpecCross                                                         *)

\* C13 (as claimed): a call in which no invocation succeeded ends by
\* returning False and never by an exception reaching the caller, whatever
\* the transport raised, whether or not the records carry
\* region_profile_prefix and whether ENABLE_CROSS_REGION_INFERENCE is on or
\* off.
C13_FailureIsReturned ==
    (/\ session > 0
     /\ pc \in {"done", "raised"}
     /\ \A i \in DOMAIN calls : calls[i].outcome # "success") =>
        (pc = "done" /\ output = "False")

----------------------------------------------------------------------------
(* Properties of the helper over its life, checked under SpecLife *)

\* C12 (as claimed): whenever the last get_validate_regions_from_conf
\* returned the empty list, at construction or later, the helper's candidate
\* list is empty, and a call of bedrock_converse_with_retry made after it
\* never gets to the loop that invokes the transport.
C12_EmptySelectionEmptiesCandidates ==
    selected = <<>> =>
        /\ validate_regions = <<>>
        /\ pc \notin {"outer", "inner", "raised"}

\* C15: after a load_conf_file that failed (the file could not be opened or
\* read, or its content is not valid JSON) raw_region_configs is the list
\* the helper had before the call, whole, and the failure is in error_logs.
C15_FailedLoadChangesNothing ==
    (last_op.op = "load" /\ ~last_op.ok) =>
        /\ raw_region_configs = last_op.before
        /\ Len(error_logs) > last_op.logs
        /\ error_logs[last_op.logs + 1] = "load_failed"

\* the helper holds a list, the file was left without valid JSON by a write
\* that failed, and the load of it failed
C15_Witness ==
    /\ last_op.op = "load"
    /\ ~last_op.ok
    /\ prev_op.op = "write"
    /\ ~Loads(file).ok
    /\ raw_region_configs # <<>>

IsPrefixOf(a, b) == Len(a) <= Len(b) /\ SubSeq(b, 1, Len(a)) = a

\* C17: disable_region_in_conf goes through disable_regions, or through
\* failed_regions when disable_regions is empty. When that list is not
\* empty it returns a record list in which the records of those regions
\* have next_available_time = current_time + NEXT_RETRY_TIME_WINDOW and
\* every other record, and every other field, is as before; when both are
\* empty it returns None and no record changes.
C17_DisableSetsWindow ==
    last_op.op = "disable" =>
        /\ last_op.arg # <<>> => last_op.regions = last_op.arg
        /\ last_op.arg = <<>> => IsPrefixOf(last_op.regions, failed_regions)
        /\ IF last_op.regions # <<>>
           THEN /\ last_op.ok
                /\ Len(last_op.out) = Len(last_op.before)
                /\ \A i \in DOMAIN last_op.before :
                      /\ DOMAIN last_op.out[i] = DOMAIN last_op.before[i]
                      /\ \A k \in DOMAIN last_op.before[i] :
                            last_op.out[i][k] =
                               IF /\ k = "next_available_time"
                                  /\ last_op.before[i].region
                                        \in Range(last_op.regions)
                               THEN current_time + NEXT_RETRY_TIME_WINDOW
                               ELSE last_op.before[i][k]
           ELSE /\ ~last_op.ok
                /\ raw_region_configs = last_op.before

\* disable_region_in_conf() went through the failed_regions a call had
\* recorded; one record was given the new time and another was left alone
C17_Witness ==
    /\ last_op.op = "disable"
    /\ last_op.arg = <<>>
    /\ last_op.ok
    /\ \E i, j \in DOMAIN last_op.before :
          /\ last_op.out[i] # last_op.before[i]
          /\ last_op.out[j] = last_op.before[j]

\* C18 (as claimed): disable_region_in_conf leaves the helper's own list
\* raw_region_configs as it was; the new next_available_time values are
\* only in the list it returns.
C18_SnapshotNotMutated ==
    last_op.op = "disable" => raw_region_configs = last_op.before

\* C19 (as claimed): a disable_region_in_conf call, with failed_regions or
\* with an explicit disable_regions list, on any loaded list, never lowers
\* the next_available_time of a record and changes no other field.
C19_CooldownNeverDecreases ==
    last_op.op = "disable" =>
        /\ Len(raw_region_configs) = Len(last_op.before)
        /\ \A i \in DOMAIN last_op.before :
              /\ raw_region_configs[i].next_available_time
                    >= last_op.before[i].next_available_time
              /\ DOMAIN raw_region_configs[i] = DOMAIN last_op.before[i]
              /\ \A k \in DOMAIN last_op.before[i] \ {"next_available_time"} :
                    raw_region_configs[i][k] = last_op.before[i][k]

\* C20: two disable_region_in_conf calls in a row on one helper with the
\* same set of regions leave every record with the next_available_time the
\* first call gave it.
C20_DisableIdempotent ==
    (/\ last_op.op = "disable"
     /\ prev_op.op = "disable"
     /\ Range(last_op.regions) = Range(prev_op.regions)) =>
        /\ Len(raw_region_configs) = Len(last_op.before)
        /\ \A i \in DOMAIN Records(last_op.before) :
              raw_region_configs[i].next_available_time
                 = last_op.before[i].next_available_time

\* the first of the two calls changed a record, the second named the same
\* regions
C20_Witness ==
    /\ last_op.op = "disable"
    /\ prev_op.op = "disable"
    /\ last_op.regions # <<>>
    /\ Range(last_op.regions) = Range(prev_op.regions)
    /\ prev_op.before # last_op.before

\* C30: load_conf_file, disable_region_in_conf, write_json_to_file_with_lock
\* and every step of bedrock_converse_with_retry leave validate_regions and
\* current_time as they are, so a call walks the candidates selected at
\* construction, including a region the helper has disabled since.
C30_CandidatesFixed ==
    [][(ops' # ops \/ sessionVars' # sessionVars \/ wpc' # wpc) =>
          (validate_regions' = validate_regions /\ current_time' = current_time)]_vars

\* the helper disabled a region and the call made after that has invoked it
C30_Witness ==
    /\ last_op.op = "disable"
    /\ pc = "inner"
    /\ calls # <<>>
    /\ FirstMatch(calls[1].region).next_available_time > current_time

----------------------------------------------------------------------------
(* Property of writing and loading back, checked under SpecTrip *)

\* C16: when write_json_to_file_with_lock has written a non-empty record
\* list and load_conf_file then loads the file, nothing having written in
\* between, raw_region_configs equals the list that was written: the same
\* records in the same order, each with the same fields and values.
C16_PersistThenLoad ==
    (/\ last_op.op = "load" /\ last_op.ok
     /\ prev_op.op = "write" /\ prev_op.ok) =>
        /\ Len(raw_region_configs) = Len(prev_op.arg)
        /\ \A i \in DOMAIN prev_op.arg :
              /\ DOMAIN raw_region_configs[i] = DOMAIN prev_op.arg[i]
              /\ \A k \in DOMAIN prev_op.arg[i] :
                    raw_region_configs[i][k] = prev_op.arg[i][k]

\* a list of two records, one with region_profile_prefix and one without,
\* other than the list the helper held, was written and loaded back
C16_Witness ==
    /\ last_op.op = "load" /\ last_op.ok
    /\ prev_op.op = "write" /\ prev_op.ok
    /\ Len(prev_op.arg) >= 2
    /\ \E i, j \in DOMAIN prev_op.arg :
          /\ HasPrefixKey(prev_op.arg[i])
          /\ ~HasPrefixKey(prev_op.arg[j])
    /\ prev_op.arg # last_op.before
    /\ raw_region_configs = prev_op.arg

----------------------------------------------------------------------------
(* Properties of the course of a retry session, checked under Spec *)

\* the running call got past the entry checks of lines 338-350
SessionRan == session > 0 /\ messages = "given" /\ validate_regions # <<>>

FailedCalls == {i \in DOMAIN calls : calls[i].outcome # "success"}

\* C21 (as claimed): a session all of whose invocations failed with a
\* transport error made exactly min(MAX_RETRY_TIME, number of candidates
\* times MAX_RETRY_TIMES_FOR_EACH_REGION) invocations and returned False,
\* and appended each region it invoked to failed_regions exactly once.
C21_AllTransportFailures ==
    (/\ SessionRan
     /\ pc = "done"
     /\ \A i \in DOMAIN calls : calls[i].outcome = "transport") =>
        /\ Len(calls) = Min(MAX_RETRY_TIME,
                            Len(validate_regions)
                               * MAX_RETRY_TIMES_FOR_EACH_REGION)
        /\ output = "False"
        /\ \A i \in DOMAIN calls :
              Count(AppendedThisCall, calls[i].region) = 1
        /\ Range(AppendedThisCall) = {calls[i].region : i \in DOMAIN calls}

\* what a call that got a response hands to its caller: the response, or
\* what extract_response made of it when the caller asked for the content
Returned ==
    IF extract_content
    THEN {"content", "None", "stream", "body"}
    ELSE {"response"}

\* C22 (as claimed): an invocation that returns a response is the last of
\* its session: the response is stored in self.response and returned (or its
\* content, when the caller asked for it). A validation error
\* does not end the session: a session that returned False after one had
\* no budget or no candidate left, and a success that follows a validation
\* error on an earlier region is returned.
C22_FirstSuccessEndsSession ==
    /\ \A i \in DOMAIN calls :
          calls[i].outcome = "success" =>
             /\ i = Len(calls)
             /\ pc = "done"
             /\ output \in Returned
             /\ response = "response"
    /\ (/\ SessionRan
        /\ pc = "done"
        /\ calls # <<>>
        /\ calls[Len(calls)].outcome = "validation") =>
           \/ Len(calls) = MAX_RETRY_TIME
           \/ /\ calls[Len(calls)].region
                    = validate_regions[Len(validate_regions)]
              /\ InvocationsOf(calls[Len(calls)].region)
                    = MAX_RETRY_TIMES_FOR_EACH_REGION

\* C23 (as claimed): at every point of a session retry_time is the number of invocations
\* of that session that failed so far, whatever the class of each failure;
\* it is zero when the session begins, whatever an earlier call on the
\* helper consumed.
C23_BudgetCountsFailures ==
    (SessionRan /\ pc \in {"outer", "inner", "done"}) =>
        retry_time = Cardinality(FailedCalls)

\* the place of region r in the candidate list
CandidateIndex(r) ==
    CHOOSE k \in DOMAIN validate_regions : validate_regions[k] = r

\* C28: the invocations of a session follow the candidate list: the first
\* one goes to the first candidate; the next invocation goes to the same
\* region or, once that region has had its MAX_RETRY_TIMES_FOR_EACH_REGION
\* sub-attempts, to the candidate right after it, never to an earlier one
\* and never past one.
C28_CandidateOrder ==
    /\ calls # <<>> => CandidateIndex(calls[1].region) = 1
    /\ \A i \in DOMAIN calls :
          i < Len(calls) =>
             \/ calls[i + 1].region = calls[i].region
             \/ /\ CandidateIndex(calls[i + 1].region)
                      = CandidateIndex(calls[i].region) + 1
                /\ InvocationsOf(calls[i].region)
                      = MAX_RETRY_TIMES_FOR_EACH_REGION
    /\ \A i, j \in DOMAIN calls :
          i < j => CandidateIndex(calls[i].region)
                      <= CandidateIndex(calls[j].region)

\* two sub-attempts in the first candidate, then the second candidate
C28_Witness ==
    /\ Len(validate_regions) = 2
    /\ Len(calls) = 3
    /\ calls[1].region = validate_regions[1]
    /\ calls[2].region = validate_regions[1]
    /\ calls[3].region = validate_regions[2]

----------------------------------------------------------------------------
(* Properties of the configuration switches, checked under SpecCross *)

\* what the endpoint file says about region r
RecordOfRegion(r) == FirstMatch(r)

\* C25 (as claimed): with ENABLE_CROSS_REGION_INFERENCE on, every invocation
\* carries the model id of the region it goes to: the region's
\* region_profile_prefix, a dot and the model id when the prefix is not
\* empty, and the plain model id when the region has no prefix, whatever
\* regions the session tried before.
C25_ProfileOfInvokedRegion ==
    (CrossRegionInference /\ ~NoCallRunning) =>
        \A i \in DOMAIN calls :
            calls[i].modelId =
               IF /\ HasPrefixKey(RecordOfRegion(calls[i].region))
                  /\ RecordOfRegion(calls[i].region).region_profile_prefix # ""
               THEN ProfileId(RecordOfRegion(calls[i].region).region_profile_prefix,
                              self_model_id)
               ELSE self_model_id

\* C27 (as claimed): with MULTI_REGION_RETRY set to False a session invokes
\* at most one region.
C27_SingleRegionWhenSwitchedOff ==
    ~MULTI_REGION_RETRY =>
        Cardinality({calls[i].region : i \in DOMAIN calls}) <= 1

----------------------------------------------------------------------------
(* SpecTwo: two helpers over one endpoint file, each running the steps of  *)
(* main.py (lines 29-41): construct, one call, disable_region_in_conf(),   *)
(* and write_json_to_file_with_lock when a list came back; a helper that   *)
(* has not called yet may read the file again with load_conf_file().      *)
(* The helpers take turns between calls of their methods.  The instance    *)
(* attributes                                                              *)
(* assigned in __init__ belong to one helper; error_logs is the list made  *)
(* by the class statement of line 48, which no method assigns again.       *)
(* write_json_to_file_with_lock runs step by step; open and flock fail or  *)
(* not, and every flush takes all its bytes (SpecFile, SpecLife and        *)
(* SpecTrip have the flushes that fail).                                   *)

\* the instance attributes of the helper whose methods run, with its history
ThisHelper ==
    [exists |-> TRUE, id |-> active,
     current_time |-> current_time,
     raw_region_configs |-> raw_region_configs,
     validate_regions |-> validate_regions,
     failed_regions |-> failed_regions,
     response |-> response,
     pc |-> pc, region_index |-> region_index,
     one_region_retry_time |-> one_region_retry_time,
     retry_time |-> retry_time, model_id |-> model_id, output |-> output,
     session |-> session, calls |-> calls, blamed |-> blamed,
     failed_at_entry |-> failed_at_entry, messages |-> messages,
     selected |-> selected, select_arg |-> select_arg,
     extract_content |-> extract_content,
     api_method |-> api_method, trace |-> trace,
     self_ENABLE_CROSS_REGION_INFERENCE |-> self_ENABLE_CROSS_REGION_INFERENCE,
     self_model_id |-> self_model_id,
     ops |-> ops, last_op |-> last_op, prev_op |-> prev_op]

\* the load_conf_file call made by __init__ (line 105), as the history keeps it
ConstructionLoad(ok, logs) == OpRecord("load", ok, <<>>, <<>>, <<>>, logs, <<>>)

\* the times a second helper is constructed at: with the first, one second
\* before its window ends, and when it ends
ConstructionTimes(now) ==
    {now, now + NEXT_RETRY_TIME_WINDOW - 1, now + NEXT_RETRY_TIME_WINDOW}

\* BedrockConnectHelper(..., auto_load_config=True) (lines 50-108) at time
\* `now`, while the first helper is kept
NewHelper(now, io_ok) ==
    /\ NoCallRunning
    /\ parked = NoHelper
    /\ parked' = ThisHelper
    /\ active' = active + 1
    /\ current_time' = now
    /\ LET parsed == IF io_ok THEN Loads(file) ELSE ParseError
       IN /\ raw_region_configs' = LoadedConfigs(<<>>, io_ok, parsed)
          /\ error_logs' = IF parsed.ok THEN error_logs
                           ELSE Append(error_logs, "load_failed")
          /\ last_op' = ConstructionLoad(parsed.ok, Len(error_logs))
    \* a selection that raises (line 108) leaves no second helper
    /\ ~RaisesTypeError(raw_region_configs')
    /\ select_arg' = Records(raw_region_configs')
    /\ \E k \in FirstIndexChoices(select_arg', now,
                                  PRIMARY_REGION_RANDOM_DISTRIBUTION) :
          selected' = GetValidateRegions(select_arg', now,
                                         PRIMARY_REGION_RANDOM_DISTRIBUTION, k)
    /\ validate_regions' = selected'
    /\ failed_regions' = <<>>
    /\ response' = "none"
    /\ pc' = "idle"
    /\ region_index' = 1
    /\ one_region_retry_time' = 0
    /\ retry_time' = 0
    /\ model_id' = BaseModelId
    /\ output' = "False"
    /\ session' = 0
    /\ calls' = <<>>
    /\ blamed' = {}
    /\ failed_at_entry' = 0
    /\ messages' = "none"
    /\ extract_content' = FALSE
    /\ api_method' = "converse"
    /\ trace' = "unset"
    /\ self_ENABLE_CROSS_REGION_INFERENCE' = "unset"
    /\ self_model_id' = BaseModelId
    /\ ops' = 1
    /\ prev_op' = NoOp
    /\ UNCHANGED <<cfgVars, fileVars>>

\* the other helper's method is called next
Switch ==
    /\ NoCallRunning
    /\ parked # NoHelper
    /\ parked' = ThisHelper
    /\ active' = parked.id
    /\ current_time' = parked.current_time
    /\ raw_region_configs' = parked.raw_region_configs
    /\ validate_regions' = parked.validate_regions
    /\ failed_regions' = parked.failed_regions
    /\ response' = parked.response
    /\ pc' = parked.pc
    /\ region_index' = parked.region_index
    /\ one_region_retry_time' = parked.one_region_retry_time
    /\ retry_time' = parked.retry_time
    /\ model_id' = parked.model_id
    /\ output' = parked.output
    /\ session' = parked.session
    /\ calls' = parked.calls
    /\ blamed' = parked.blamed
    /\ failed_at_entry' = parked.failed_at_entry
    /\ messages' = parked.messages
    /\ extract_content' = parked.extract_content
    /\ api_method' = parked.api_method
    /\ trace' = parked.trace
    /\ self_ENABLE_CROSS_REGION_INFERENCE' =
          parked.self_ENABLE_CROSS_REGION_INFERENCE
    /\ self_model_id' = parked.self_model_id
    /\ selected' = parked.selected
    /\ select_arg' = parked.select_arg
    /\ ops' = parked.ops
    /\ last_op' = parked.last_op
    /\ prev_op' = parked.prev_op
    /\ UNCHANGED <<cfgVars, error_logs, fileVars>>

\* the first helper after __init__ (lines 68-108): the file is loaded and the
\* candidates are selected
InitTwo ==
    /\ DefaultConfig
    /\ current_time = MaxTime
    /\ file \in {Dumps(s) : s \in LifeSnapshots(current_time)}
    /\ old_content = file
    /\ raw_region_configs = Loads(file).value
    /\ select_arg = raw_region_configs
    /\ selected = GetValidateRegions(raw_region_configs, current_time,
                                     PRIMARY_REGION_RANDOM_DISTRIBUTION, 0)
    /\ validate_regions = selected
    /\ failed_regions = <<>>
    /\ error_logs = <<>>
    /\ response = "none"
    /\ SessionIdle
    /\ ops = 1
    /\ last_op = ConstructionLoad(TRUE, 0)
    /\ prev_op = NoOp
    /\ Alone
    /\ NothingSet
    /\ OwnFile

\* main.py lines 32, 37 and 39-41 in their order; the helper built second
\* is given set_cross_region_inference(True) first, or is not, and a helper
\* calls load_conf_file() before its call, or does not
NextTwo ==
    \/ active = 2 /\ session = 0 /\ ops = 1 /\ SetCrossRegionInference(TRUE)
    \/ session = 0 /\ ops = 1 /\ (\E io_ok \in BOOLEAN : Reload(io_ok))
    \/ /\ session = 0
       /\ ops = 1 \/ last_op.op = "load"
       /\ Wrapper("converse", FALSE, "", "absent")
    \/ NextRegion
    \/ \E outcome \in LifeOutcomes : Invoke(outcome, "text")
    \/ LeaveRegion
    \/ session = 1 /\ ops = 1 /\ Disable(<<>>)
    \/ /\ ops = 2 /\ last_op.op = "disable" /\ last_op.ok
       /\ PersistCall(last_op.out)
    \/ WOpen(Me)
    \/ WOpenFails(Me)
    \/ WriterGoesOn(Me)
    \/ PersistReturn
    \/ \E now \in ConstructionTimes(current_time), io_ok \in BOOLEAN :
          NewHelper(now, io_ok)
    \/ Switch

SpecTwo == InitTwo /\ [][NextTwo]_vars

----------------------------------------------------------------------------
(* Properties of two helpers in one process, checked under SpecTwo *)

\* `helper.error_logs` for any helper: no method assigns the attribute on the
\* instance (lines 131, 340, 347, 432 and 440 append to it), so the lookup
\* ends at the list of the class statement, line 48
ErrorLogsOf(id) == error_logs

\* what can be read through the helper that is not running
SeenThroughOther ==
    [error_logs |-> ErrorLogsOf(parked.id),
     failed_regions |-> parked.failed_regions,
     validate_regions |-> parked.validate_regions,
     raw_region_configs |-> parked.raw_region_configs]

\* C26: a step of one helper (its load, its call of
\* bedrock_converse_with_retry) leaves what can be read through the other
\* helper of the process as it was: the other's error log, failed_regions,
\* candidate list and snapshot.
C26_OtherHelperUntouched ==
    [][(parked # NoHelper /\ active' = active) =>
          SeenThroughOther' = SeenThroughOther]_vars

\* the helper that is not running recorded failures, ran
\* disable_region_in_conf() and wrote the list it returned; the last thing
\* the running helper did before its call, if it has called, was to load
\* the file this left, in __init__ or by load_conf_file()
LoadedAfterOthersWrite ==
    /\ parked # NoHelper
    /\ parked.last_op.op = "write" /\ parked.last_op.ok
    /\ parked.prev_op.op = "disable" /\ parked.prev_op.arg = <<>>
    /\ last_op.op = "load" /\ last_op.ok
    /\ raw_region_configs = parked.last_op.arg

InvokedRegions == {calls[i].region : i \in DOMAIN calls}

\* C24 (as claimed): a region R whose failure a helper constructed at t
\* recorded, disabled and wrote to the file is left out of the candidates of
\* every helper that loads the file before t + NEXT_RETRY_TIME_WINDOW, and
\* that helper does not invoke R; a helper that loads the file at
\* t + NEXT_RETRY_TIME_WINDOW or later has R among its candidates again.  A
\* helper constructed before t + NEXT_RETRY_TIME_WINDOW can load before it.
C24_CooldownEndToEnd ==
    LoadedAfterOthersWrite =>
        \A R \in Range(parked.failed_regions) :
            IF current_time < parked.current_time + NEXT_RETRY_TIME_WINDOW
            THEN R \notin Range(validate_regions) /\ R \notin InvokedRegions
            ELSE R \in Range(validate_regions)

\* what both helpers loaded when they were constructed
FirstContent == Loads(old_content).value

\* the helper that is not running loaded the first content, disabled its
\* failed regions and wrote
OtherWroteFirst ==
    /\ parked # NoHelper
    /\ parked.last_op.op = "write" /\ parked.last_op.ok
    /\ parked.prev_op.op = "disable" /\ parked.prev_op.before = FirstContent

\* regions the other helper disabled and the running one did not
OnlyOtherFailed == Range(parked.failed_regions) \ Range(failed_regions)

RecordIn(configs, r) == configs[CHOOSE i \in DOMAIN configs : configs[i].region = r]

\* C29: of two helpers that loaded the same file and disabled different
\* regions, the one that writes second leaves the file holding its own list
\* and nothing else: a region only the first writer disabled has, in the
\* file, the next_available_time the second writer had loaded.
C29_SecondWriteReplaces ==
    [][(/\ OtherWroteFirst
        /\ active' = active
        /\ ops = 2 /\ last_op.op = "disable" /\ last_op.before = FirstContent
        /\ ops' = 3 /\ last_op'.op = "write" /\ last_op'.ok)
       => /\ file' = Dumps(raw_region_configs)
          /\ Loads(file').value = last_op'.arg
          /\ \A r \in OnlyOtherFailed :
                RecordIn(Loads(file').value, r).next_available_time =
                    RecordIn(FirstContent, r).next_available_time]_vars

C29_Witness ==
    /\ OtherWroteFirst
    /\ ops = 3 /\ last_op.op = "write" /\ last_op.ok
    /\ prev_op.op = "disable" /\ prev_op.before = FirstContent
    /\ file = Dumps(raw_region_configs)
    /\ \E r \in OnlyOtherFailed :
          /\ RecordIn(parked.raw_region_configs, r).next_available_time =
                NextTimestamp(parked.current_time)
          /\ RecordIn(Loads(file).value, r).next_available_time =
                RecordIn(FirstContent, r).next_available_time
          /\ RecordIn(FirstContent, r).next_available_time <
                NextTimestamp(parked.current_time)

====
